---------------------------- MODULE Spec2Model ----------------------------
(***************************************************************************)
(* Verification model of the DroidCam MJPEG relay prototypes:              *)
(*   src/ef.py                      frame-extracting relay (/stream)       *)
(*   src/fastapi_viewer.py          chunk relay, endpoint scan             *)
(*   src/ultra_performance_viewer.py chunk relay with endpoint failover    *)
(*   src/cv.py                      Flask relay with jitter buffer         *)
(*   src/webrtc_viewer.py           JPEG extraction for the WebRTC track   *)
(* Byte strings are sequences of integers 0..255 (Python indices are       *)
(* 0-based, TLA+ sequences 1-based: Find returns Python indices).          *)
(***************************************************************************)
EXTENDS Integers, Sequences, FiniteSets, TLC

\* ------------------------------------------------------------------
\* Bounds of the model
\* ------------------------------------------------------------------
\* longest upstream byte string of the extraction specification
MaxLen == 6

\* ------------------------------------------------------------------
\* Bytes and markers (src/ef.py:579-580, src/webrtc_viewer.py:77-78)
\* ------------------------------------------------------------------
xFF == 255
xD8 == 216
xD9 == 217
SOI == <<xFF, xD8>>
EOI == <<xFF, xD9>>
\* the bytes the upstream strings are drawn from: the three marker bytes
\* (alone they are payload or garbage) and one plain payload byte
PayloadByte == 0
Alphabet == {xFF, xD8, xD9, PayloadByte}

Min(S) == CHOOSE x \in S : \A y \in S : x <= y

\* bytes.find(sub, start): the lowest Python index i >= start at which sub
\* occurs in buf, -1 when there is none
Find(buf, sub, start) ==
    LET cands == {i \in start..(Len(buf) - Len(sub)) :
                     \A k \in 1..Len(sub) : buf[i + k] = sub[k]}
    IN  IF cands = {} THEN -1 ELSE Min(cands)

\* buf[a:b] for 0 <= a <= b <= len(buf)
Slice(buf, a, b) == SubSeq(buf, a + 1, b)

\* del buffer[:end]  (a mutant clears the whole buffer; another leaves the
\* EOI marker in it)
DelPrefixAll(buf, end) == <<>>
DelPrefixBeforeEOI(buf, end) == Slice(buf, end - 2, Len(buf))
DelPrefix(buf, end) == Slice(buf, end, Len(buf))

\* One iteration of the cutting loop of ef.py (lines 589-594), which is also
\* the body of extract_jpeg_frame of webrtc_viewer.py (lines 80-94):
\* found = FALSE when no complete SOI..EOI pair is in the buffer.
ExtractStepFromStart(buf) ==
    LET start == Find(buf, SOI, 0)
        end   == Find(buf, EOI, start)
    IN  IF start # -1 /\ end # -1
        THEN [found |-> TRUE, frame |-> Slice(buf, start, end + 2),
              rest |-> DelPrefix(buf, end + 2)]
        ELSE [found |-> FALSE, frame |-> <<>>, rest |-> buf]
\* (a mutant looks for the EOI from the beginning of the buffer)
ExtractStepAnyEOI(buf) ==
    LET start == Find(buf, SOI, 0)
        end   == Find(buf, EOI, 0)
    IN  IF start # -1 /\ end # -1
        THEN [found |-> TRUE, frame |-> Slice(buf, start, end + 2),
              rest |-> DelPrefix(buf, end + 2)]
        ELSE [found |-> FALSE, frame |-> <<>>, rest |-> buf]
\* (a mutant hands out the bytes after an SOI before their EOI has come)
ExtractStepEager(buf) ==
    LET start == Find(buf, SOI, 0)
        end   == Find(buf, EOI, start + 2)
    IN  IF start # -1
        THEN IF end # -1
             THEN [found |-> TRUE, frame |-> Slice(buf, start, end + 2),
                   rest |-> DelPrefix(buf, end + 2)]
             ELSE [found |-> TRUE, frame |-> Slice(buf, start, Len(buf)),
                   rest |-> <<>>]
        ELSE [found |-> FALSE, frame |-> <<>>, rest |-> buf]
\* (a mutant hands out the bytes before the SOI together with the frame)
ExtractStepWithPrefix(buf) ==
    LET start == Find(buf, SOI, 0)
        end   == Find(buf, EOI, start + 2)
    IN  IF start # -1 /\ end # -1
        THEN [found |-> TRUE, frame |-> Slice(buf, 0, end + 2),
              rest |-> DelPrefix(buf, end + 2)]
        ELSE [found |-> FALSE, frame |-> <<>>, rest |-> buf]
ExtractStep(buf) ==
    LET start == Find(buf, SOI, 0)
        end   == Find(buf, EOI, start + 2)
    IN  IF start # -1 /\ end # -1
        THEN [found |-> TRUE, frame |-> Slice(buf, start, end + 2),
              rest |-> DelPrefix(buf, end + 2)]
        ELSE [found |-> FALSE, frame |-> <<>>, rest |-> buf]

\* The whole `while True` loop of ef.py (lines 588-636) with rate limiting
\* off: cut frames until no pair is left.
RECURSIVE ExtractAll(_)
ExtractAll(buf) ==
    LET s == ExtractStep(buf)
    IN  IF ~s.found THEN [frames |-> <<>>, rest |-> buf]
        ELSE LET r == ExtractAll(s.rest)
             IN  [frames |-> <<s.frame>> \o r.frames, rest |-> r.rest]

\* ------------------------------------------------------------------
\* State
\* ------------------------------------------------------------------
VARIABLES
    \* --- request parameters of the session ---
    variant,         \* which program serves the request (see Variants)
    frame_interval,  \* 1/fps_limit in ticks, 0 when fps_limit is absent
    drop_strategy,   \* "none" | "latest" | "oldest"
    quality,         \* "high" | "medium" | "low" | another string
    resolution,      \* "auto" | "640x480"
    \* --- position of the session ---
    pc,              \* where the generator is
    epIdx,           \* index of the candidate endpoint being used
    tried,           \* candidate indices contacted so far, in order
    firstAvailable,  \* index of the first candidate found Available, 0: none
    resp,            \* the open upstream response, NoResp when none
    \* --- time, in ticks of 1/(10*fps_limit) ---
    age,             \* now - last_frame_time (last_sent), capped at AgeCap
    sinceEmit,       \* real time since the last piece was written, capped
    gap,             \* time between the last two pieces written, -1: none
    sleepLeft,       \* duration of the asyncio.sleep in progress
    slept,           \* a pacing sleep has been executed in this session
    \* --- data ---
    recv,            \* chunks received from upstream, in order (chunk relays)
    pending,         \* the chunk or frame index being paced, 0 when none
    out,             \* pieces written downstream, in order
    \* --- cv.py generate(), times in units of 0.1 ms since start_time ---
    smoothing,         \* "basic" | "enhanced" | "ultra" | "cinema"
    now,               \* time.time() - start_time at the last chunk
    last_frame_time,   \* last_frame_time - start_time
    frame_timestamps,  \* the rolling window of chunk arrival times
    jitter,            \* local `jitter`, Unbound before its first assignment
    adaptive_delay,
    jitter_buffer,     \* buffered chunks (their indices in recv), oldest first
    \* --- frame extraction (ef.py generate, buffer part) ---
    upstream,     \* the byte string the upstream serves in this run
    pos,          \* how many of its bytes have been delivered as chunks
    chunkStart,   \* offset at which the last delivered chunk began
    buffer,       \* bytearray `buffer` (ef.py:578)
    frames,       \* the frames cut out so far, in order
    \* --- endpoint scans (scan_endpoints, scan_endpoints_fast) ---
    scan_results, \* what the probes finished so far returned, by endpoint
    results,      \* the dict the scan returns
    \* --- the downstream side ---
    client,       \* "connected" | "gone": the client of the session
    answers,      \* what the host answered so far, by endpoint contacted
    \* --- HighPerformanceDroidCamStreamer, shared by concurrent sessions ---
    sessions,            \* each /stream generator: where it is, how it ended
    active_streams,      \* self.active_streams
    active_connections,  \* self.performance_stats['active_connections']
    session_pool,        \* keys of the aiohttp sessions the streamer holds
    client_sessions,     \* every aiohttp.ClientSession created: its key,
                         \* whether it is closed, whether the pool holds it
    \* --- webrtc_viewer.py: WebRTCManager and the handlers that use it ---
    connections,         \* webrtc_manager.connections: session_id -> peer
    peers,               \* every RTCPeerConnection created, with its track
    shutdown,            \* where the shutdown hook is (shutdown_event of
                         \* webrtc_viewer.py, lifespan of ultra_performance_viewer.py)
    \* --- process-wide counters read by /api/stats ---
    total_chunks,        \* ultra: performance_stats['total_chunks']
    total_bytes,         \* ultra: the chunks whose len() went into 'total_bytes'
    frames_processed,    \* ef.py: streamer.stats['frames_processed']
    bytes_transferred    \* ef.py: the chunks whose len() went into 'bytes_transferred'

cfgVars  == <<variant, frame_interval, drop_strategy, quality, resolution>>
sessVars == <<pc, epIdx, tried, firstAvailable, resp>>
timeVars == <<age, sinceEmit, gap, sleepLeft, slept>>
ioVars   == <<recv, pending, out>>
flVars   == <<smoothing, now, last_frame_time, frame_timestamps, jitter,
               adaptive_delay, jitter_buffer>>
exVars   == <<upstream, pos, chunkStart, buffer, frames>>
scanVars == <<scan_results, results>>
envVars  == <<client, answers>>
statVars == <<sessions, active_streams, active_connections, session_pool,
              client_sessions>>
rtcVars  == <<connections, peers, shutdown>>
cntVars  == <<total_chunks, total_bytes, frames_processed, bytes_transferred>>
vars == <<cfgVars, sessVars, timeVars, ioVars, flVars, exVars, scanVars,
          envVars, statVars, cntVars, rtcVars>>

NoResp == [status |-> 0, ctype |-> "none"]
\* a Python local that has not been assigned yet
Unbound == 0 - 1

IdleFlask ==
    /\ smoothing = "ultra" /\ now = 0 /\ last_frame_time = 0
    /\ frame_timestamps = <<>> /\ jitter = Unbound /\ adaptive_delay = 0
    /\ jitter_buffer = <<>>

EmptyDict == [e \in {} |-> 0]
\* d[k] = val   (a mutant starts a fresh dict at every store)
PutAlone(d, k, val) == [x \in {k} |-> val]
Put(d, k, val) == [x \in (DOMAIN d) \cup {k} |-> IF x = k THEN val ELSE d[x]]
IdleScan == scan_results = EmptyDict /\ results = EmptyDict /\ answers = EmptyDict
Connected == client = "connected"
\* HighPerformanceDroidCamStreamer.__init__, no /stream request yet
\* self.session_pool[key] (ultra_performance_viewer.py) / self.session
\* (fastapi_viewer.py, ef.py): the sessions a /stream request and a scan
\* call get, created on first use and kept
StreamSessions(v) ==
    IF v \in {"ultra", "ultra_bytes"} THEN {"stream_ip_port"}
    ELSE IF v \in {"fastapi_fps", "fastapi_route", "ef_fps", "ef_route"}
    THEN {"session"}
    ELSE {}
ScanSessions(v) ==
    IF v = "ultra_scan" THEN {"scan_ip"}
    ELSE IF v \in {"fastapi_scan", "ef_scan"} THEN {"session"}
    ELSE {}
\* session = await self.get_optimized_session(key) / self.get_session()
\* if key not in self.session_pool or self.session_pool[key].closed:
\*     self.session_pool[key] = aiohttp.ClientSession(...)
\* (a mutant creates a session at every call)
NewClient(k) == [key |-> k, closed |-> FALSE, pooled |-> TRUE]
NeedsNew(k) ==
    \/ k \notin session_pool
    \/ \E c \in client_sessions : c.key = k /\ c.pooled /\ c.closed
GetSession(keys) ==
    LET fresh == {k \in keys : NeedsNew(k)}
    IN  /\ session_pool' = session_pool \cup keys
        /\ client_sessions' =
              {IF c.key \in fresh /\ c.pooled THEN [c EXCEPT !.pooled = FALSE] ELSE c :
                   c \in client_sessions}
              \cup {NewClient(k) : k \in fresh}

\* WebRTCManager.__init__: no peer connection yet, shutdown not begun
IdleRtc == connections = EmptyDict /\ peers = <<>> /\ shutdown = "idle"

\* a /stream handler has fetched its session before it first connects
IdleStats ==
    /\ sessions = <<>>
    /\ active_streams = {}
    /\ active_connections = 0
    /\ session_pool = StreamSessions(variant)
    /\ client_sessions = {NewClient(k) : k \in session_pool}
\* the counters of a process that has served nothing yet
IdleCounters ==
    /\ total_chunks = 0 /\ total_bytes = {}
    /\ frames_processed = 0 /\ bytes_transferred = {}

\* the values of the variables a specification does not use
IdleSession ==
    /\ variant = "none" /\ frame_interval = 0
    /\ drop_strategy = "none" /\ quality = "high" /\ resolution = "auto"
    /\ pc = "idle" /\ epIdx = 0 /\ tried = <<>> /\ firstAvailable = 0
    /\ resp = NoResp
    /\ age = 0 /\ sinceEmit = 0 /\ gap = -1 /\ sleepLeft = 0 /\ slept = FALSE
    /\ recv = <<>> /\ pending = 0 /\ out = <<>>
    /\ IdleFlask
    /\ IdleScan
    /\ Connected
    /\ IdleRtc
    /\ IdleStats
    /\ IdleCounters

\* ------------------------------------------------------------------
\* Extraction specification: one byte string, every way of chunking it
\* ------------------------------------------------------------------
RECURSIVE Strings(_)
Strings(n) ==
    IF n = 0 THEN {<<>>}
    ELSE LET S == Strings(n - 1)
         IN  S \cup {Append(s, b) : s \in {t \in S : Len(t) = n - 1}, b \in Alphabet}

ExInit ==
    /\ IdleSession
    /\ upstream \in Strings(MaxLen)
    /\ pos = 0
    /\ chunkStart = 0
    /\ buffer = <<>>
    /\ frames = <<>>

\* async for chunk in iter_chunked(): buffer.extend(chunk); while True: cut
FeedChunk(n) ==
    /\ pos + n <= Len(upstream)
    /\ LET chunk == SubSeq(upstream, pos + 1, pos + n)
           r     == ExtractAll(buffer \o chunk)
       IN  /\ buffer' = r.rest
           /\ frames' = frames \o r.frames
    /\ chunkStart' = pos
    /\ pos' = pos + n
    /\ UNCHANGED <<cntVars, statVars, envVars, upstream, scanVars, rtcVars, cfgVars, sessVars, timeVars, ioVars,
                   flVars>>

ExNext == \E n \in 1..MaxLen : FeedChunk(n)

SpecExtract == ExInit /\ [][ExNext]_vars

\* A buffer of the form garbage, SOI A EOI, SOI B EOI: garbage without
\* an SOI, A and B without a marker; fed to the cutting loop in chunks of
\* any sizes, the whole buffer at once included.
PartLen == MaxLen \div 3
Garbage == {g \in Strings(PartLen) : Find(g, SOI, 0) = -1}
Plain == {a \in Strings(PartLen) : Find(a, SOI, 0) = -1 /\ Find(a, EOI, 0) = -1}
TwoFrames(g, a, b) == g \o SOI \o a \o EOI \o SOI \o b \o EOI

TwoInit ==
    /\ IdleSession
    /\ \E g \in Garbage, a \in Plain, b \in Plain : upstream = TwoFrames(g, a, b)
    /\ pos = 0
    /\ chunkStart = 0
    /\ buffer = <<>>
    /\ frames = <<>>

TwoNext == \E n \in 1..(2 * MaxLen + 2) : FeedChunk(n)

SpecTwoFrames == TwoInit /\ [][TwoNext]_vars

\* ------------------------------------------------------------------
\* Relay sessions: request parameters, candidate endpoints, probing
\* ------------------------------------------------------------------
\* most chunks a session receives from upstream (all endpoints together)
MaxChunks == 3

\* "ultra"         ultra_performance_viewer.py /stream
\*                 (stream_video.generate around ultra_high_performance_stream)
\* "fastapi_fps"   fastapi_viewer.py DroidCamStreamer.stream_with_fps_limit
\* "ef_fps"        ef.py DroidCamStreamer.stream_with_fps_limit
\* "fastapi_route" fastapi_viewer.py /stream (stream_video.generate)
\* "ef_route"      ef.py /stream (stream_video.generate)
\* "flask"         cv.py /stream
ChunkRelays == {"ultra", "fastapi_fps", "ef_fps"}

\* the candidate list each program iterates over
Endpoints(v) ==
    CASE v = "ultra" -> <<"/video", "/mjpegfeed", "/cam/1/stream">>
      [] v \in {"fastapi_fps", "ef_fps"} ->
            <<"/mjpegfeed", "/video", "/cam/1/stream", "/cam/1/mjpeg", "/", "/stream">>
      [] v \in {"fastapi_route", "ef_route"} -> <<"/video">>
      [] v = "flask" ->
            <<"/video?res&quality&fps", "/video?quality&fps", "/video", "/mjpegfeed", "">>
      [] OTHER -> <<>>

\* frame_interval = 1.0 / fps_limit if fps_limit else 0, in ticks of
\* 1/(10*fps_limit): an fps limit is an interval of ten ticks
FrameIntervals == {0, 10}
DropStrategies == {"none", "latest", "oldest"}
Qualities == {"high", "medium", "low"}
\* ages are capped at the longest interval: beyond it the code no longer
\* distinguishes them
AgeCap == CHOOSE x \in FrameIntervals : \A y \in FrameIntervals : x >= y
\* ticks that may pass while the session waits for the next chunk: none,
\* one, just under 0.8, 0.9 and 1.0 of an interval, a whole interval
Elapse == {0, 1, 7, 8, 9, 10}
Overshoot == {0, 1}

Min2(a, b) == IF a <= b THEN a ELSE b

\* what an upstream may answer
Mixed == "multipart/x-mixed-replace;boundary=--dcmjpeg"
ContentTypes == {Mixed, "image/jpeg", "text/html", "application/octet-stream"}
Statuses == {200, 404}
ConnectError == [err |-> TRUE, status |-> 0, ctype |-> "none"]
ConnectOutcomes ==
    {ConnectError} \cup [err : {FALSE}, status : Statuses, ctype : ContentTypes]

\* Python's `needle in content_type.lower()` on the content types above,
\* for the needles the programs test
Occurs(needle, ct) ==
    needle \in (CASE ct = Mixed -> {"multipart/x-mixed-replace", "multipart", "mjpeg"}
                  [] ct = "image/jpeg" -> {"image/jpeg"}
                  [] ct = "text/html" -> {"text/html"}
                  [] OTHER -> {})

\* 'multipart/x-mixed-replace' in content_type or 'image/jpeg' in content_type
IsMjpeg(ct) == Occurs("multipart/x-mixed-replace", ct) \/ Occurs("image/jpeg", ct)

\* the streaming generators open a candidate only on status 200 and an
\* MJPEG content type
Accepted(o) == ~o.err /\ o.status = 200 /\ IsMjpeg(o.ctype)

\* pieces written downstream: a raw upstream chunk (its index in recv), an
\* error text, or a multipart part built by the relay
ChunkPiece(i) ==
    [kind |-> "chunk", id |-> i, boundary |-> "", ctype |-> "", clen |-> 0,
     payload |-> <<>>, text |-> ""]
TextPiece ==
    [kind |-> "text", id |-> 0, boundary |-> "", ctype |-> "", clen |-> 0,
     payload |-> <<>>, text |-> "Stream error"]

\* the text the /stream routes of fastapi_viewer.py and ef.py answer with
\* when the one URL they open is not streamed: an exception, a status
\* other than 200, an HTML page
RejectText(o) ==
    IF o.err THEN TextPiece
    ELSE IF o.status # 200 THEN [TextPiece EXCEPT !.text = "DroidCam status"]
    ELSE [TextPiece EXCEPT !.text = "DroidCam returned HTML"]

IdleExtract ==
    /\ upstream = <<>> /\ pos = 0 /\ chunkStart = 0
    /\ buffer = <<>> /\ frames = <<>>

SessionStart ==
    /\ pc = "connect" /\ epIdx = 1 /\ tried = <<>> /\ firstAvailable = 0
    /\ resp = NoResp
    /\ age = AgeCap /\ sinceEmit = AgeCap /\ gap = -1
    /\ sleepLeft = 0 /\ slept = FALSE
    /\ recv = <<>> /\ pending = 0 /\ out = <<>>
    /\ IdleScan
    /\ Connected
    /\ IdleRtc
    /\ IdleStats
    /\ IdleCounters

RelayInit ==
    /\ variant \in ChunkRelays
    /\ frame_interval \in FrameIntervals
    /\ drop_strategy \in DropStrategies
    /\ quality \in (IF variant = "ef_fps" THEN Qualities ELSE {"high"})
    /\ resolution = "auto"
    /\ SessionStart
    /\ IdleFlask
    /\ IdleExtract

\* ------------------------------------------------------------------
\* Chunk relays with a candidate list:
\*   ultra_performance_viewer.py 125-223 (+ 568-577),
\*   fastapi_viewer.py 61-137, ef.py 117-220
\* ------------------------------------------------------------------
\* after the loop: raise HTTPException(503); in ultra the /stream wrapper
\* catches it and yields the error text
AllFailed ==
    /\ epIdx' = epIdx
    /\ IF variant = "ultra"
       THEN pc' = "failed" /\ out' = Append(out, TextPiece)
       ELSE pc' = "raised" /\ out' = out

\* `continue` of the `for endpoint in endpoints` loop  (a mutant gives up
\* after the first candidate)
NextEndpointGiveUp == AllFailed
NextEndpoint ==
    IF epIdx < Len(Endpoints(variant))
    THEN pc' = "connect" /\ epIdx' = epIdx + 1 /\ out' = out
    ELSE AllFailed

\* async with session.get(endpoint) as response: status and content type
RelayConnect(o) ==
    /\ variant \in ChunkRelays
    /\ pc = "connect"
    /\ tried' = Append(tried, epIdx)
    /\ IF Accepted(o)
       THEN /\ resp' = [status |-> o.status, ctype |-> o.ctype]
            /\ firstAvailable' = IF firstAvailable = 0 THEN epIdx ELSE firstAvailable
            /\ pc' = "read" /\ epIdx' = epIdx /\ out' = out
            /\ age' = AgeCap                      \* last_frame_time = 0
       ELSE /\ resp' = NoResp
            /\ firstAvailable' = firstAvailable
            /\ NextEndpoint
            /\ age' = age
    /\ UNCHANGED <<cntVars, statVars, envVars, scanVars, rtcVars, cfgVars, flVars, sinceEmit, gap, sleepLeft,
                   slept, recv, pending, exVars>>

\* quality_multiplier of ef.py (185-189), times ten
Mult10(v, q) ==
    IF v = "ef_fps"
    THEN (CASE q = "high" -> 10 [] q = "medium" -> 9 [] q = "low" -> 8 [] OTHER -> 10)
    ELSE 10

\* sleep_time = frame_interval [* quality_multiplier] - (current_time - last_frame_time)
SleepTime(v, q, interval, elapsed) == (interval * Mult10(v, q)) \div 10 - elapsed

\* last_frame_time = time.time(); yield chunk
\* (ef.py 206: stats['frames_processed'] += 1 just before the yield)
EmitChunk(i, real) ==
    /\ out' = Append(out, ChunkPiece(i))
    /\ frames_processed' =
          IF variant = "ef_fps" THEN frames_processed + 1 ELSE frames_processed
    /\ gap' = IF out = <<>> THEN -1 ELSE real
    /\ sinceEmit' = 0
    /\ pending' = 0
    /\ sleepLeft' = 0

\* if drop_strategy == "latest": continue / elif drop_strategy == "oldest":
\* continue   (a mutant waits under "oldest")
DropsLatestOnly(ds) == ds = "latest"
Drops(ds) == ds \in {"latest", "oldest"}

\* `continue` leaves last_frame_time alone: the time since it was set is
\* the elapsed time just measured  (a mutant sets it to the current time)
SkipRestartsClock(elapsed) == 0
Skip(elapsed) == elapsed

\* one iteration of `async for chunk in response.content.iter_chunked(...)`,
\* the chunk arriving d ticks after the previous step, as the code runs it
\* when the drop_strategy argument is ds
RelayReadChunkAs(ds, d) ==
    /\ variant \in ChunkRelays
    /\ pc = "read"
    /\ Len(recv) < MaxChunks
    /\ recv' = Append(recv, epIdx)
    \* ultra 182-183 and ef.py 176: counted as the chunk arrives, before the
    \* FPS decision
    /\ total_chunks' = IF variant = "ultra" THEN total_chunks + 1 ELSE total_chunks
    /\ total_bytes' =
          IF variant = "ultra" THEN total_bytes \cup {Len(recv) + 1} ELSE total_bytes
    /\ bytes_transferred' =
          IF variant = "ef_fps" THEN bytes_transferred \cup {Len(recv) + 1}
          ELSE bytes_transferred
    /\ LET elapsed == Min2(AgeCap, age + d)
           real    == Min2(AgeCap, sinceEmit + d)
           i       == Len(recv) + 1
       IN  IF frame_interval > 0 /\ elapsed < frame_interval
           THEN IF Drops(ds)
                THEN \* continue: the chunk is skipped
                     /\ age' = Skip(elapsed) /\ sinceEmit' = real
                     /\ pc' = "read"
                     /\ UNCHANGED <<gap, sleepLeft, slept, pending, out, frames_processed>>
                ELSE IF SleepTime(variant, quality, frame_interval, elapsed) > 0
                THEN \* await asyncio.sleep(sleep_time)
                     /\ age' = elapsed /\ sinceEmit' = real
                     /\ pc' = "sleep"
                     /\ sleepLeft' = SleepTime(variant, quality, frame_interval, elapsed)
                     /\ slept' = TRUE
                     /\ pending' = i
                     /\ UNCHANGED <<gap, out, frames_processed>>
                ELSE /\ age' = 0
                     /\ pc' = "read"
                     /\ EmitChunk(i, real)
                     /\ UNCHANGED slept
           ELSE /\ age' = IF frame_interval > 0 THEN 0 ELSE elapsed
                /\ pc' = "read"
                /\ EmitChunk(i, real)
                /\ UNCHANGED slept
    /\ UNCHANGED <<statVars, envVars, scanVars, rtcVars, cfgVars, flVars, epIdx, tried, firstAvailable,
                   resp, exVars>>

RelayReadChunk(d) == RelayReadChunkAs(drop_strategy, d)

\* the sleep returns (after at least sleep_time), then
\* last_frame_time = time.time() and yield chunk
RelayWake(over) ==
    /\ variant \in ChunkRelays
    /\ pc = "sleep"
    /\ age' = 0
    /\ pc' = "read"
    /\ EmitChunk(pending, Min2(AgeCap, sinceEmit + sleepLeft + over))
    /\ UNCHANGED <<total_chunks, total_bytes, bytes_transferred, statVars, envVars, scanVars, rtcVars, cfgVars, flVars, epIdx, tried, firstAvailable,
                   resp, slept, recv, exVars>>

\* the upstream ends the body: the loop ends, `return`
RelayUpstreamClose ==
    /\ variant \in ChunkRelays
    /\ pc = "read"
    /\ pc' = "done"
    /\ resp' = NoResp
    /\ UNCHANGED <<cntVars, statVars, envVars, scanVars, rtcVars, cfgVars, flVars, epIdx, tried, firstAvailable,
                   timeVars, ioVars, exVars>>

\* reading the body raises (reset, sock_read timeout): the exception is
\* caught by `except Exception` of the endpoint loop, which continues
RelayUpstreamError ==
    /\ variant \in ChunkRelays
    /\ pc = "read"
    /\ resp' = NoResp
    /\ NextEndpoint
    /\ UNCHANGED <<cntVars, statVars, envVars, scanVars, rtcVars, cfgVars, flVars, tried, firstAvailable,
                   timeVars, recv, pending, exVars>>

\* the client disconnects: the cancellation (CancelledError, or
\* GeneratorExit when the generator is closed) is raised at the await or
\* yield the generator is suspended at; it is no Exception, so it passes
\* `except Exception`, leaves `async with` (the response is released) and
\* runs `finally`   (a mutant lets `except Exception: continue` catch it)
RelayCancelCaught ==
    /\ variant \in ChunkRelays
    /\ pc \in {"read", "sleep"}
    /\ Connected
    /\ client' = "gone"
    /\ resp' = NoResp
    /\ NextEndpoint
    /\ UNCHANGED <<cntVars, statVars, answers, scanVars, rtcVars, cfgVars, flVars, tried, firstAvailable, timeVars,
                   recv, pending, exVars>>
RelayCancel ==
    /\ variant \in ChunkRelays
    /\ pc \in {"read", "sleep"}
    /\ Connected
    /\ client' = "gone"
    /\ resp' = NoResp
    /\ pc' = "cancelled"
    /\ UNCHANGED <<cntVars, statVars, answers, scanVars, rtcVars, cfgVars, flVars, epIdx, tried, firstAvailable,
                   timeVars, ioVars, exVars>>

RelayNext ==
    \/ \E o \in ConnectOutcomes : RelayConnect(o)
    \/ \E d \in Elapse : RelayReadChunk(d)
    \/ \E over \in Overshoot : RelayWake(over)
    \/ RelayUpstreamClose
    \/ RelayUpstreamError
    \/ RelayCancel

SpecRelay == RelayInit /\ [][RelayNext]_vars

\* ------------------------------------------------------------------
\* fastapi_viewer.py /stream (374-472): direct proxy of one URL
\* ------------------------------------------------------------------
RouteInit ==
    /\ variant = "fastapi_route"
    /\ frame_interval \in FrameIntervals
    /\ drop_strategy \in DropStrategies
    /\ quality = "high"
    /\ resolution = "auto"
    /\ SessionStart
    /\ IdleFlask
    /\ IdleExtract

\* session.get(droidcam_url): an exception, a non-200 status and an HTML
\* answer each end the session with one text piece; anything else streams
RouteConnect(o) ==
    /\ variant = "fastapi_route"
    /\ pc = "connect"
    /\ tried' = Append(tried, epIdx)
    /\ answers' = Put(answers, Endpoints(variant)[epIdx], o)
    /\ IF o.err \/ o.status # 200 \/ Occurs("text/html", o.ctype)
       THEN /\ out' = Append(out, RejectText(o))
            /\ pc' = "failed"
            /\ resp' = NoResp
            /\ firstAvailable' = firstAvailable
       ELSE /\ out' = out
            /\ pc' = "read"
            /\ resp' = [status |-> o.status, ctype |-> o.ctype]
            /\ firstAvailable' = IF firstAvailable = 0 THEN epIdx ELSE firstAvailable
    /\ UNCHANGED <<cntVars, statVars, client, scanVars, rtcVars, cfgVars, flVars, epIdx, timeVars, recv, pending,
                   exVars>>

\* asyncio.sleep(1.0 / fps_limit / 10)
RouteSleepTime(interval) == interval \div 10

\* one chunk: chunk_count += 1; sleep when fps_limit and chunk_count > 1;
\* yield chunk.  drop_strategy is not read.
RouteReadChunk(d) ==
    /\ variant = "fastapi_route"
    /\ pc = "read"
    /\ Len(recv) < MaxChunks
    /\ recv' = Append(recv, epIdx)
    /\ LET real == Min2(AgeCap, sinceEmit + d)
           chunk_count == Len(recv) + 1
       IN  IF frame_interval > 0 /\ chunk_count > 1
           THEN /\ pc' = "sleep"
                /\ sleepLeft' = RouteSleepTime(frame_interval)
                /\ slept' = TRUE
                /\ pending' = chunk_count
                /\ sinceEmit' = real
                /\ UNCHANGED <<gap, out>>
           ELSE /\ pc' = "read"
                /\ EmitChunk(chunk_count, real)
                /\ UNCHANGED slept
    /\ UNCHANGED <<cntVars, statVars, envVars, scanVars, rtcVars, cfgVars, flVars, epIdx, tried, firstAvailable,
                   resp, age, exVars>>

RouteWake(over) ==
    /\ variant = "fastapi_route"
    /\ pc = "sleep"
    /\ pc' = "read"
    /\ EmitChunk(pending, Min2(AgeCap, sinceEmit + sleepLeft + over))
    /\ UNCHANGED <<cntVars, statVars, envVars, scanVars, rtcVars, cfgVars, flVars, epIdx, tried, firstAvailable,
                   resp, age, slept, recv, exVars>>

\* the body ends: "Stream completed", the generator returns
RouteUpstreamClose ==
    /\ variant = "fastapi_route"
    /\ pc = "read"
    /\ pc' = "done"
    /\ resp' = NoResp
    /\ UNCHANGED <<cntVars, statVars, envVars, scanVars, rtcVars, cfgVars, flVars, epIdx, tried, firstAvailable,
                   timeVars, ioVars, exVars>>

\* except Exception: yield "Stream error: ..."
RouteUpstreamError ==
    /\ variant = "fastapi_route"
    /\ pc = "read"
    /\ pc' = "failed"
    /\ resp' = NoResp
    /\ out' = Append(out, TextPiece)
    /\ UNCHANGED <<cntVars, statVars, envVars, scanVars, rtcVars, cfgVars, flVars, epIdx, tried, firstAvailable,
                   timeVars, recv, pending, exVars>>

\* the client disconnects: except asyncio.CancelledError: print; raise
RouteCancel ==
    /\ variant = "fastapi_route"
    /\ pc \in {"read", "sleep"}
    /\ Connected
    /\ client' = "gone"
    /\ resp' = NoResp
    /\ pc' = "cancelled"
    /\ UNCHANGED <<cntVars, statVars, answers, scanVars, rtcVars, cfgVars, flVars, epIdx, tried, firstAvailable,
                   timeVars, ioVars, exVars>>

RouteNext ==
    \/ \E o \in ConnectOutcomes : RouteConnect(o)
    \/ \E d \in Elapse : RouteReadChunk(d)
    \/ \E over \in Overshoot : RouteWake(over)
    \/ RouteUpstreamClose
    \/ RouteUpstreamError
    \/ RouteCancel

SpecRoute == RouteInit /\ [][RouteNext]_vars

\* ------------------------------------------------------------------
\* ef.py /stream (509-653): cut JPEG frames out of the upstream bytes,
\* pace or drop them, re-encode them, write one multipart part per frame
\* ------------------------------------------------------------------
\* most items (frames, noise) an upstream of this session serves
MaxItems == 2
\* ticks that may pass while this session waits for a chunk
EfElapse == {0, 1, AgeCap}

FrameA == SOI \o EOI
FrameB == SOI \o <<PayloadByte>> \o EOI
Noise  == <<PayloadByte>>
Items  == {FrameA, FrameB, Noise}
\* largest chunk iter_chunked hands over: room for the longest item
MaxChunkLen == Len(FrameB)

RECURSIVE Streams(_)
Streams(n) ==
    IF n = 0 THEN {<<>>}
    ELSE Streams(n - 1) \cup {s \o i : s \in Streams(n - 1), i \in Items}

\* quality_map = {"high": 90, "medium": 75, "low": 60}
QualityMap == {"high", "medium", "low"}

\* if target_size is not None or quality in quality_map:
Transcodes == resolution # "auto" \/ quality \in QualityMap

\* how cv2.imdecode / cv2.imencode may end for a frame
TranscodeOutcomes == {"ok", "decode_failed", "encode_failed"}

\* enc.tobytes(): the re-encoded image, other bytes of another length
Encoded(f) == SOI \o <<PayloadByte, PayloadByte>> \o EOI

\* frame_bytes after lines 610-623   (a mutant loses the frame's bytes
\* when decoding or encoding fails)
TranscodedOrNothing(f, t) ==
    IF Transcodes THEN (IF t = "ok" THEN Encoded(f) ELSE <<>>) ELSE f
Transcoded(f, t) == IF Transcodes /\ t = "ok" THEN Encoded(f) ELSE f

\* header + frame_bytes + b"\r\n": boundary "--frame", Content-Type
\* image/jpeg, Content-Length, blank line, payload, CRLF
\* (a mutant takes the length before re-encoding)
PartPieceStale(i, payload) ==
    [kind |-> "part", id |-> i, boundary |-> "--frame", ctype |-> "image/jpeg",
     clen |-> Len(frames[i]), payload |-> payload, text |-> ""]
PartPiece(i, payload) ==
    [kind |-> "part", id |-> i, boundary |-> "--frame", ctype |-> "image/jpeg",
     clen |-> Len(payload), payload |-> payload, text |-> ""]

EfInit ==
    /\ variant = "ef_route"
    /\ frame_interval \in FrameIntervals
    /\ drop_strategy \in DropStrategies
    /\ quality \in {"high", "custom"}
    /\ resolution \in {"auto", "640x480"}
    /\ SessionStart
    /\ IdleFlask
    /\ upstream \in Streams(MaxItems)
    /\ pos = 0 /\ chunkStart = 0 /\ buffer = <<>> /\ frames = <<>>

\* session.get(droidcam_url): an exception, a non-200 status and an HTML
\* answer each end the session with one text piece
EfConnect(o) ==
    /\ variant = "ef_route"
    /\ pc = "connect"
    /\ tried' = Append(tried, epIdx)
    /\ answers' = Put(answers, Endpoints(variant)[epIdx], o)
    /\ IF o.err \/ o.status # 200 \/ Occurs("text/html", o.ctype)
       THEN /\ out' = Append(out, RejectText(o))
            /\ pc' = "failed"
            /\ resp' = NoResp
            /\ firstAvailable' = firstAvailable
       ELSE /\ out' = out
            /\ pc' = "read"
            /\ resp' = [status |-> o.status, ctype |-> o.ctype]
            /\ firstAvailable' = IF firstAvailable = 0 THEN epIdx ELSE firstAvailable
    /\ UNCHANGED <<cntVars, statVars, client, scanVars, rtcVars, cfgVars, flVars, epIdx, timeVars, recv, pending,
                   exVars>>

\* async for chunk in iter_chunked(16384): buffer.extend(chunk)
EfReadChunk(n, d) ==
    /\ variant = "ef_route"
    /\ pc = "read"
    /\ pos + n <= Len(upstream)
    /\ buffer' = buffer \o SubSeq(upstream, pos + 1, pos + n)
    /\ pos' = pos + n
    /\ age' = Min2(AgeCap, age + d)
    /\ sinceEmit' = Min2(AgeCap, sinceEmit + d)
    /\ pc' = "cut"
    /\ UNCHANGED <<cntVars, statVars, envVars, scanVars, rtcVars, cfgVars, flVars, epIdx, tried, firstAvailable, resp, gap,
                   sleepLeft, slept, ioVars, upstream, chunkStart, frames>>

\* one iteration of `while True`: find SOI/EOI, cut the frame, FPS control,
\* as the code runs it when the drop_strategy argument is ds
EfCutAs(ds) ==
    /\ variant = "ef_route"
    /\ pc = "cut"
    /\ LET s == ExtractStep(buffer)
           delta == age                       \* now - last_sent
       IN  IF ~s.found
           THEN /\ pc' = "read"               \* break
                /\ UNCHANGED <<buffer, frames, sleepLeft, slept, pending>>
           ELSE /\ buffer' = s.rest
                /\ frames' = Append(frames, s.frame)
                /\ IF frame_interval > 0 /\ delta < frame_interval
                   THEN IF ds = "latest"
                        THEN /\ pc' = "cut"   \* continue
                             /\ UNCHANGED <<sleepLeft, slept, pending>>
                        ELSE /\ pc' = "sleep"
                             /\ sleepLeft' = frame_interval - delta
                             /\ slept' = TRUE
                             /\ pending' = Len(frames) + 1
                   ELSE /\ pc' = "encode"
                        /\ pending' = Len(frames) + 1
                        /\ UNCHANGED <<sleepLeft, slept>>
    /\ UNCHANGED <<cntVars, statVars, envVars, scanVars, rtcVars, cfgVars, flVars, epIdx, tried, firstAvailable, resp, age, sinceEmit, gap,
                   recv, out, upstream, pos, chunkStart>>

EfCut == EfCutAs(drop_strategy)

\* await asyncio.sleep(frame_interval - delta) returns
EfWake(over) ==
    /\ variant = "ef_route"
    /\ pc = "sleep"
    /\ age' = Min2(AgeCap, age + sleepLeft + over)
    /\ sinceEmit' = Min2(AgeCap, sinceEmit + sleepLeft + over)
    /\ sleepLeft' = 0
    /\ pc' = "encode"
    /\ UNCHANGED <<cntVars, statVars, envVars, scanVars, rtcVars, cfgVars, flVars, epIdx, tried, firstAvailable,
                   resp, gap, slept, ioVars, exVars>>

\* decode / resize / encode (taking d ticks), last_sent = time.time(),
\* yield header + frame_bytes + CRLF
EfEmit(t, d) ==
    /\ variant = "ef_route"
    /\ pc = "encode"
    /\ out' = Append(out, PartPiece(pending, Transcoded(frames[pending], t)))
    /\ gap' = IF out = <<>> THEN -1 ELSE Min2(AgeCap, sinceEmit + d)
    /\ age' = 0
    /\ sinceEmit' = 0
    /\ pending' = 0
    /\ pc' = "cut"
    /\ UNCHANGED <<cntVars, statVars, envVars, scanVars, rtcVars, cfgVars, flVars, epIdx, tried, firstAvailable,
                   resp, sleepLeft, slept, recv, exVars>>

\* the upstream has served everything and closes: the loop ends
\* (a mutant writes the error text at a normal end too)
EfUpstreamCloseSentinel ==
    /\ variant = "ef_route"
    /\ pc = "read"
    /\ pos = Len(upstream)
    /\ pc' = "done"
    /\ resp' = NoResp
    /\ out' = Append(out, TextPiece)
    /\ UNCHANGED <<cntVars, statVars, envVars, scanVars, rtcVars, cfgVars, flVars, epIdx, tried, firstAvailable, timeVars, recv,
                   pending, exVars>>
EfUpstreamClose ==
    /\ variant = "ef_route"
    /\ pc = "read"
    /\ pos = Len(upstream)
    /\ pc' = "done"
    /\ resp' = NoResp
    /\ UNCHANGED <<cntVars, statVars, envVars, scanVars, rtcVars, cfgVars, flVars, epIdx, tried, firstAvailable,
                   timeVars, ioVars, exVars>>

\* reading raises: except Exception: yield "Stream error: ..."
EfUpstreamError ==
    /\ variant = "ef_route"
    /\ pc = "read"
    /\ pc' = "failed"
    /\ resp' = NoResp
    /\ out' = Append(out, TextPiece)
    /\ UNCHANGED <<cntVars, statVars, envVars, scanVars, rtcVars, cfgVars, flVars, epIdx, tried, firstAvailable,
                   timeVars, recv, pending, exVars>>

\* the client disconnects while the generator is suspended (reading,
\* sleeping, or at the yield it resumes from into the cut loop):
\* except asyncio.CancelledError: raise
EfCancel ==
    /\ variant = "ef_route"
    /\ pc \in {"read", "sleep", "cut"}
    /\ Connected
    /\ client' = "gone"
    /\ resp' = NoResp
    /\ pc' = "cancelled"
    /\ UNCHANGED <<cntVars, statVars, answers, scanVars, rtcVars, cfgVars, flVars, epIdx, tried, firstAvailable,
                   timeVars, ioVars, exVars>>

EfNext ==
    \/ \E o \in ConnectOutcomes : EfConnect(o)
    \/ \E n \in 1..MaxChunkLen, d \in EfElapse : EfReadChunk(n, d)
    \/ EfCut
    \/ \E over \in Overshoot : EfWake(over)
    \/ \E t \in TranscodeOutcomes, d \in Overshoot : EfEmit(t, d)
    \/ EfUpstreamClose
    \/ EfUpstreamError
    \/ EfCancel

SpecEf == EfInit /\ [][EfNext]_vars

\* ------------------------------------------------------------------
\* cv.py /stream (47-256): Flask relay with a jitter buffer.
\* Times are in units of 0.1 ms, measured from start_time.
\* ------------------------------------------------------------------
\* most chunks the upstream of a Flask session serves
MaxFlaskChunks == 6

\* target_fps = float(params['fps']); frame_interval = 1.0 / target_fps
FlaskFps == {20, 25}
FlaskInterval(fps) == 10000 \div fps
\* time between two chunk arrivals: 1 ms, 15 ms, 40 ms
FlaskElapse == {10, 150, 400}

\* smoothing_params (cv.py 109-114): window, tolerance (in percent), max_buffer
SmoothingLevels == {"basic", "enhanced", "ultra", "cinema"}
Window(sm) ==
    CASE sm = "basic" -> 5 [] sm = "enhanced" -> 8 [] sm = "cinema" -> 15 [] OTHER -> 10
Tolerance100(sm) ==
    CASE sm = "basic" -> 80 [] sm = "enhanced" -> 75 [] sm = "cinema" -> 65 [] OTHER -> 70
MaxBuffer(sm) ==
    CASE sm = "basic" -> 2 [] sm = "enhanced" -> 3 [] sm = "cinema" -> 8 [] OTHER -> 5

Max2(a, b) == IF a >= b THEN a ELSE b
MaxOf(S) == CHOOSE x \in S : \A y \in S : x >= y

\* "multipart" in ctype.lower() or "mjpeg" in ctype.lower()
FlaskAccepted(o) ==
    ~o.err /\ o.status = 200
           /\ (Occurs("multipart", o.ctype) \/ Occurs("mjpeg", o.ctype))

FlaskInit ==
    /\ variant = "flask"
    /\ frame_interval \in {FlaskInterval(f) : f \in FlaskFps}
    /\ drop_strategy = "none" /\ quality = "medium" /\ resolution = "auto"
    /\ SessionStart
    /\ smoothing \in SmoothingLevels
    /\ now = 0 /\ last_frame_time = 0
    /\ frame_timestamps = <<>> /\ jitter = Unbound /\ adaptive_delay = 0
    /\ jitter_buffer = <<>>
    /\ IdleExtract

\* requests.get(endpoint, stream=True): on 200 and an MJPEG type the route
\* returns Response(generate()); otherwise the next endpoint; after the
\* last one a 502 text response
FlaskConnect(o) ==
    /\ variant = "flask"
    /\ pc = "connect"
    /\ tried' = Append(tried, epIdx)
    /\ IF FlaskAccepted(o)
       THEN /\ resp' = [status |-> o.status, ctype |-> o.ctype]
            /\ firstAvailable' = IF firstAvailable = 0 THEN epIdx ELSE firstAvailable
            /\ pc' = "read" /\ epIdx' = epIdx
       ELSE /\ resp' = NoResp
            /\ firstAvailable' = firstAvailable
            /\ IF epIdx < Len(Endpoints(variant))
               THEN pc' = "connect" /\ epIdx' = epIdx + 1
               ELSE pc' = "http502" /\ epIdx' = epIdx
    /\ UNCHANGED <<cntVars, statVars, envVars, scanVars, rtcVars, cfgVars, flVars, timeVars, ioVars, exVars>>

\* frame_timestamps.append(current_time); pop(0) beyond the window
PushTimestamp(ts, t, sm) ==
    LET a == Append(ts, t) IN IF Len(a) > Window(sm) THEN Tail(a) ELSE a

\* intervals = [ts[i] - ts[i-1] ...]; jitter = max(intervals) - min(intervals)
JitterOf(ts) ==
    LET iv == {ts[i + 1] - ts[i] : i \in 1..(Len(ts) - 1)}
    IN  MaxOf(iv) - Min(iv)

\* while jitter_buffer: yield jitter_buffer.pop(0)   (a mutant pops the
\* newest first)
RECURSIVE FlushNewestFirst(_)
FlushNewestFirst(jb) ==
    IF jb = <<>> THEN <<>>
    ELSE <<ChunkPiece(jb[Len(jb)])>> \o FlushNewestFirst(SubSeq(jb, 1, Len(jb) - 1))
RECURSIVE Flush(_)
Flush(jb) ==
    IF jb = <<>> THEN <<>> ELSE <<ChunkPiece(Head(jb))>> \o Flush(Tail(jb))

\* one iteration of `for chunk in r.iter_content(...)`, the chunk arriving
\* d after the previous one
FlaskChunk(d) ==
    /\ variant = "flask"
    /\ pc = "read"
    /\ Len(recv) < MaxFlaskChunks
    /\ recv' = Append(recv, epIdx)
    /\ now' = now + d
    /\ LET i  == Len(recv) + 1
           ts == PushTimestamp(frame_timestamps, now + d, smoothing)
           j  == IF Len(ts) >= 3 THEN JitterOf(ts) ELSE jitter
           ad == IF Len(ts) >= 3
                 THEN IF j > 100 THEN Min2(50, (j * 3) \div 10)
                                 ELSE Max2(0, adaptive_delay - 10)
                 ELSE adaptive_delay
           time_since_last == (now + d) - last_frame_time
           predicted_next_frame == frame_interval - ad
       IN  /\ frame_timestamps' = ts
           /\ jitter' = j
           /\ adaptive_delay' = ad
           /\ IF time_since_last * 100 < predicted_next_frame * Tolerance100(smoothing)
              THEN IF j = Unbound
                   THEN \* NameError at `jitter > 0.02`: except, log, end;
                        \* nothing closes r
                        /\ jitter_buffer' = Append(jitter_buffer, i)
                        /\ pc' = "failed"
                        /\ UNCHANGED <<out, last_frame_time, resp>>
                   ELSE LET jb == Append(jitter_buffer, i)
                            dynamic_max_buffer ==
                                MaxBuffer(smoothing) + (IF j > 200 THEN 2 ELSE 0)
                        IN  /\ jitter_buffer' =
                                  IF Len(jb) > dynamic_max_buffer THEN Tail(jb) ELSE jb
                            /\ pc' = "read"
                            /\ UNCHANGED <<out, last_frame_time, resp>>
              ELSE /\ out' = out \o Flush(jitter_buffer) \o <<ChunkPiece(i)>>
                   /\ jitter_buffer' = <<>>
                   /\ last_frame_time' = now + d
                   /\ pc' = "read"
                   /\ UNCHANGED resp
    /\ UNCHANGED <<cntVars, statVars, envVars, scanVars, rtcVars, cfgVars, smoothing, epIdx, tried,
                   firstAvailable, timeVars, pending, exVars>>

\* the upstream ends: the remaining jitter buffer is sent, oldest first
FlaskUpstreamClose ==
    /\ variant = "flask"
    /\ pc = "read"
    /\ out' = out \o Flush(jitter_buffer)
    /\ jitter_buffer' = <<>>
    /\ pc' = "done"
    /\ resp' = NoResp
    /\ UNCHANGED <<cntVars, statVars, envVars, scanVars, rtcVars, cfgVars, smoothing, now, last_frame_time, frame_timestamps,
                   jitter, adaptive_delay, epIdx, tried, firstAvailable, timeVars, recv,
                   pending, exVars>>

\* reading raises: the HTTP library drops the broken connection;
\* except Exception: logging.error, the generator ends
FlaskUpstreamError ==
    /\ variant = "flask"
    /\ pc = "read"
    /\ pc' = "failed"
    /\ resp' = NoResp
    /\ UNCHANGED <<cntVars, statVars, envVars, scanVars, rtcVars, cfgVars, flVars, epIdx, tried, firstAvailable,
                   timeVars, ioVars, exVars>>

\* the client disconnects: the server closes the generator, GeneratorExit
\* is raised at the yield it is suspended at and passes `except Exception`;
\* the generator never calls r.close()
FlaskDisconnect ==
    /\ variant = "flask"
    /\ pc = "read"
    /\ out # <<>>
    /\ Connected
    /\ client' = "gone"
    /\ pc' = "cancelled"
    /\ UNCHANGED <<cntVars, statVars, answers, scanVars, rtcVars, cfgVars, flVars, epIdx, tried, firstAvailable,
                   resp, timeVars, ioVars, exVars>>

FlaskNext ==
    \/ \E o \in ConnectOutcomes : FlaskConnect(o)
    \/ \E d \in FlaskElapse : FlaskChunk(d)
    \/ FlaskUpstreamClose
    \/ FlaskUpstreamError
    \/ FlaskDisconnect

SpecFlask == FlaskInit /\ [][FlaskNext]_vars

\* ------------------------------------------------------------------
\* Endpoint scans: fastapi_viewer.py 26-59 and ef.py 82-115 (one GET
\* after another), ultra_performance_viewer.py 79-123 (HEAD requests run
\* concurrently, gathered at the end)
\* ------------------------------------------------------------------
Scanners == {"fastapi_scan", "ef_scan", "ultra_scan", "advanced_scan"}

ScanEndpoints(v) ==
    CASE v = "ultra_scan" -> <<"/video", "/mjpegfeed", "/cam/1/stream", "/">>
      [] v = "advanced_scan" -> <<"/video", "/mjpegfeed", "/", "/cam/1/stream">>
      [] OTHER -> <<"/video", "/mjpegfeed", "/">>

\* the entry stored for one endpoint: the content type alone decides
\* between 'available' and 'not_mjpeg'; an exception gives 'error'
\* (a mutant lets the status code decide)
ScanEntryByStatus(o) ==
    IF o.err
    THEN [status |-> "error", error |-> "exception"]
    ELSE [status |-> IF o.status = 200 THEN "available" ELSE "not_mjpeg",
          content_type |-> o.ctype,
          status_code |-> o.status]
ScanEntry(o) ==
    IF o.err
    THEN [status |-> "error", error |-> "exception"]
    ELSE [status |-> IF IsMjpeg(o.ctype) THEN "available" ELSE "not_mjpeg",
          content_type |-> o.ctype,
          status_code |-> o.status]

ScanInit ==
    /\ variant \in Scanners
    /\ frame_interval = 0 /\ drop_strategy = "none"
    /\ quality = "high" /\ resolution = "auto"
    /\ pc = "scan" /\ epIdx = 1 /\ tried = <<>> /\ firstAvailable = 0
    /\ resp = NoResp
    /\ age = 0 /\ sinceEmit = 0 /\ gap = -1 /\ sleepLeft = 0 /\ slept = FALSE
    /\ recv = <<>> /\ pending = 0 /\ out = <<>>
    /\ IdleFlask
    /\ IdleExtract
    /\ IdleScan
    /\ Connected
    /\ IdleRtc
    /\ sessions = <<>> /\ active_streams = {} /\ active_connections = 0
    \* first scan of the process, or a scan after an earlier one
    /\ session_pool \in SUBSET ScanSessions(variant)
    /\ client_sessions = {NewClient(k) : k \in session_pool}
    /\ IdleCounters

\* one iteration of `for endpoint in endpoints`: results[endpoint] = {...}
ScanProbe(o) ==
    /\ variant \in {"fastapi_scan", "ef_scan"}
    /\ pc = "scan"
    /\ epIdx <= Len(ScanEndpoints(variant))
    /\ tried' = Append(tried, epIdx)
    /\ results' = Put(results, ScanEndpoints(variant)[epIdx], ScanEntry(o))
    /\ epIdx' = epIdx + 1
    /\ answers' = Put(answers, ScanEndpoints(variant)[epIdx], o)
    /\ GetSession(ScanSessions(variant))
    /\ UNCHANGED <<cntVars, sessions, active_streams, active_connections, client, rtcVars, cfgVars, pc, firstAvailable, resp, timeVars, ioVars, flVars, exVars,
                   scan_results>>

\* test_endpoint(endpoint) of one of the concurrent tasks returns
ScanTaskDone(i, o) ==
    /\ variant = "ultra_scan"
    /\ pc = "scan"
    /\ i \in 1..Len(ScanEndpoints(variant))
    /\ ScanEndpoints(variant)[i] \notin DOMAIN scan_results
    /\ scan_results' = Put(scan_results, ScanEndpoints(variant)[i], ScanEntry(o))
    /\ answers' = Put(answers, ScanEndpoints(variant)[i], o)
    /\ GetSession(ScanSessions(variant))
    /\ UNCHANGED <<cntVars, sessions, active_streams, active_connections, client, rtcVars, cfgVars, sessVars, timeVars, ioVars, flVars, exVars,
                   results>>

\* asyncio.gather has every result: copy them into results and return
ScanGather ==
    /\ variant = "ultra_scan"
    /\ pc = "scan"
    /\ \A i \in 1..Len(ScanEndpoints(variant)) :
          ScanEndpoints(variant)[i] \in DOMAIN scan_results
    /\ results' = scan_results
    /\ pc' = "returned"
    /\ GetSession(ScanSessions(variant))
    /\ UNCHANGED <<cntVars, sessions, active_streams, active_connections, envVars, rtcVars, cfgVars, epIdx, tried, firstAvailable, resp, timeVars, ioVars, flVars,
                   exVars, scan_results>>

\* return results
ScanReturn ==
    /\ variant \in {"fastapi_scan", "ef_scan"}
    /\ pc = "scan"
    /\ epIdx > Len(ScanEndpoints(variant))
    /\ pc' = "returned"
    /\ GetSession(ScanSessions(variant))
    /\ UNCHANGED <<cntVars, sessions, active_streams, active_connections, envVars, rtcVars, cfgVars, epIdx, tried, firstAvailable, resp, timeVars, ioVars, flVars,
                   exVars, scanVars>>

\* find_droidcam_advanced.py test_droidcam_ip: HEAD one endpoint after
\* another; the first answer with status 200 is returned, classified by
\* its content type; any other answer or an exception moves on
NoneResult == [status |-> "None"]
AdvancedStatus(ct) ==
    IF Occurs("multipart/x-mixed-replace", ct) THEN "MJPEG_READY"
    ELSE IF Occurs("text/html", ct) THEN "HTML_RESPONSE"
    ELSE "UNKNOWN_CONTENT"

AdvancedProbe(o) ==
    /\ variant = "advanced_scan"
    /\ pc = "scan"
    /\ epIdx <= Len(ScanEndpoints(variant))
    /\ tried' = Append(tried, epIdx)
    /\ answers' = Put(answers, ScanEndpoints(variant)[epIdx], o)
    /\ IF ~o.err /\ o.status = 200
       THEN /\ results' = [endpoint |-> ScanEndpoints(variant)[epIdx],
                           status |-> AdvancedStatus(o.ctype),
                           content_type |-> o.ctype]
            /\ pc' = "returned"
            /\ epIdx' = epIdx
       ELSE /\ results' = results
            /\ pc' = pc
            /\ epIdx' = epIdx + 1
    /\ UNCHANGED <<cntVars, statVars, client, rtcVars, cfgVars, firstAvailable, resp, timeVars,
                   ioVars, flVars, exVars, scan_results>>

\* return None
AdvancedReturnNone ==
    /\ variant = "advanced_scan"
    /\ pc = "scan"
    /\ epIdx > Len(ScanEndpoints(variant))
    /\ results' = NoneResult
    /\ pc' = "returned"
    /\ UNCHANGED <<cntVars, statVars, envVars, rtcVars, cfgVars, epIdx, tried, firstAvailable, resp,
                   timeVars, ioVars, flVars, exVars, scan_results>>

ScanNext ==
    \/ \E o \in ConnectOutcomes : ScanProbe(o)
    \/ \E i \in 1..4, o \in ConnectOutcomes : ScanTaskDone(i, o)
    \/ ScanGather
    \/ ScanReturn
    \/ \E o \in ConnectOutcomes : AdvancedProbe(o)
    \/ AdvancedReturnNone

SpecScan == ScanInit /\ [][ScanNext]_vars

\* ------------------------------------------------------------------
\* Concurrent sessions of ultra_performance_viewer.py: each /stream
\* request runs ultra_high_performance_stream on the one shared
\* HighPerformanceDroidCamStreamer; asyncio interleaves them at their
\* awaits and yields only
\* ------------------------------------------------------------------
MaxSessions == 3
Targets == {"a", "b"}          \* stream_id = f"{ip}:{port}"
Running == {"connect", "read", "yield"}

NewSession == [state |-> "new", ip |-> "", ep |-> 0, how |-> ""]

ActiveInit ==
    /\ variant = "ultra_stats" /\ frame_interval = 0
    /\ drop_strategy = "none" /\ quality = "high" /\ resolution = "auto"
    /\ pc = "idle" /\ epIdx = 0 /\ tried = <<>> /\ firstAvailable = 0
    /\ resp = NoResp
    /\ age = 0 /\ sinceEmit = 0 /\ gap = -1 /\ sleepLeft = 0 /\ slept = FALSE
    /\ recv = <<>> /\ pending = 0 /\ out = <<>>
    /\ IdleFlask
    /\ IdleExtract
    /\ IdleScan
    /\ Connected
    /\ IdleRtc
    /\ sessions = [s \in 1..MaxSessions |-> NewSession]
    /\ active_streams = {}
    /\ active_connections = 0
    /\ session_pool = {}
    /\ client_sessions = {}
    /\ IdleCounters

\* everything but the shared streamer
oneVars == <<cfgVars, sessVars, timeVars, ioVars, flVars, exVars, scanVars,
             envVars, cntVars, rtcVars>>

\* finally: discard(stream_id); active_connections -= 1   (a mutant
\* forgets the counter)
FinallyDiscardOnly(s, how) ==
    /\ sessions' = [sessions EXCEPT ![s] = [state |-> "ended", ip |-> "",
                                            ep |-> 0, how |-> how]]
    /\ active_streams' = active_streams \ {sessions[s].ip}
    /\ active_connections' = active_connections
Finally(s, how) ==
    /\ sessions' = [sessions EXCEPT ![s] = [state |-> "ended", ip |-> "",
                                            ep |-> 0, how |-> how]]
    /\ active_streams' = active_streams \ {sessions[s].ip}
    /\ active_connections' = active_connections - 1

\* `continue` of the endpoint loop; after the last endpoint
\* raise HTTPException(503), which leaves through finally
ActiveNextEndpoint(s) ==
    IF sessions[s].ep < Len(Endpoints("ultra"))
    THEN /\ sessions' = [sessions EXCEPT ![s].state = "connect",
                                         ![s].ep = sessions[s].ep + 1]
         /\ UNCHANGED <<active_streams, active_connections>>
    ELSE Finally(s, "raise")

\* the generator is first resumed: get_optimized_session (no await inside),
\* try: active_streams.add(stream_id); active_connections += 1
ActiveStart(s, ip) ==
    /\ variant = "ultra_stats"
    /\ sessions[s].state = "new"
    /\ sessions' = [sessions EXCEPT ![s] = [state |-> "connect", ip |-> ip,
                                            ep |-> 1, how |-> ""]]
    /\ active_streams' = active_streams \cup {ip}
    /\ active_connections' = active_connections + 1
    /\ GetSession({ip})
    /\ UNCHANGED oneVars

\* async with session.get(endpoint): accepted, or rejected / raised
ActiveConnect(s, accepted) ==
    /\ variant = "ultra_stats"
    /\ sessions[s].state = "connect"
    /\ IF accepted
       THEN /\ sessions' = [sessions EXCEPT ![s].state = "read"]
            /\ UNCHANGED <<active_streams, active_connections>>
       ELSE ActiveNextEndpoint(s)
    /\ UNCHANGED <<session_pool, client_sessions, oneVars>>

\* a chunk arrives and is yielded: the generator is suspended at the yield
ActiveChunk(s) ==
    /\ variant = "ultra_stats"
    /\ sessions[s].state = "read"
    /\ sessions' = [sessions EXCEPT ![s].state = "yield"]
    /\ UNCHANGED <<active_streams, active_connections>>
    /\ UNCHANGED <<session_pool, client_sessions, oneVars>>

\* the consumer asks for the next chunk
ActiveResume(s) ==
    /\ variant = "ultra_stats"
    /\ sessions[s].state = "yield"
    /\ sessions' = [sessions EXCEPT ![s].state = "read"]
    /\ UNCHANGED <<active_streams, active_connections>>
    /\ UNCHANGED <<session_pool, client_sessions, oneVars>>

\* the upstream ends the response: `return`, through finally
ActiveUpstreamEnd(s) ==
    /\ variant = "ultra_stats"
    /\ sessions[s].state = "read"
    /\ Finally(s, "return")
    /\ UNCHANGED <<session_pool, client_sessions, oneVars>>

\* reading raises: except Exception: continue
ActiveUpstreamError(s) ==
    /\ variant = "ultra_stats"
    /\ sessions[s].state = "read"
    /\ ActiveNextEndpoint(s)
    /\ UNCHANGED <<session_pool, client_sessions, oneVars>>

\* the client disconnects: CancelledError at the await, or GeneratorExit
\* at the yield when the abandoned generator is closed; through finally
ActiveCancel(s) ==
    /\ variant = "ultra_stats"
    /\ sessions[s].state \in Running
    /\ Finally(s, "cancel")
    /\ UNCHANGED <<session_pool, client_sessions, oneVars>>

ActiveNext ==
    \/ \E s \in 1..MaxSessions, ip \in Targets : ActiveStart(s, ip)
    \/ \E s \in 1..MaxSessions, a \in {Accepted(o) : o \in ConnectOutcomes} :
          ActiveConnect(s, a)
    \/ \E s \in 1..MaxSessions : ActiveChunk(s)
    \/ \E s \in 1..MaxSessions : ActiveResume(s)
    \/ \E s \in 1..MaxSessions : ActiveUpstreamEnd(s)
    \/ \E s \in 1..MaxSessions : ActiveUpstreamError(s)
    \/ \E s \in 1..MaxSessions : ActiveCancel(s)

SpecActive == ActiveInit /\ [][ActiveNext]_vars

\* get_performance_stats()['active_connections']
get_performance_stats == active_connections

\* ------------------------------------------------------------------
\* webrtc_viewer.py: one websocket /ws/{session_id}, the peer
\* connections it creates, the connectionstatechange callbacks and
\* shutdown_event, all working on webrtc_manager.connections.
\* pc is the websocket handler's position: "receive" (in the message
\* loop), "closing" (close_connection suspended in `await pc.close()`),
\* "done", "raised"; pending is the peer close_connection took as conn.
\* ------------------------------------------------------------------
\* most create_offer messages a client sends on the websocket
MaxOffers == 3
Sid == "session_id"

NewPeer == [state |-> "open", track |-> "running", callback |-> "idle"]
Remove(d, k) == [x \in (DOMAIN d) \ {k} |-> d[x]]

RtcInit ==
    /\ variant = "webrtc" /\ frame_interval = 0
    /\ drop_strategy = "none" /\ quality = "high" /\ resolution = "auto"
    /\ pc = "receive" /\ epIdx = 0 /\ tried = <<>> /\ firstAvailable = 0
    /\ resp = NoResp
    /\ age = 0 /\ sinceEmit = 0 /\ gap = -1 /\ sleepLeft = 0 /\ slept = FALSE
    /\ recv = <<>> /\ pending = 0 /\ out = <<>>
    /\ IdleFlask
    /\ IdleExtract
    /\ IdleScan
    /\ Connected
    /\ IdleRtc
    /\ IdleStats
    /\ IdleCounters

rtcRest == <<cfgVars, epIdx, tried, firstAvailable, resp, timeVars, recv, out,
             flVars, exVars, scanVars, envVars, statVars, cntVars>>

\* message 'create_offer': create_peer_connection makes a peer connection
\* with its track and stores it under session_id, whatever was there
create_peer_connection ==
    /\ peers' = Append(peers, NewPeer)
    /\ connections' = Put(connections, Sid, Len(peers) + 1)

RtcCreateOffer ==
    /\ variant = "webrtc"
    /\ pc = "receive"
    /\ Len(peers) < MaxOffers
    /\ create_peer_connection
    /\ UNCHANGED <<pc, pending, shutdown, rtcRest>>

\* conn['video_track'].stop(); await conn['pc'].close(): a peer connection
\* that is open starts closing and will report the closed state; one that
\* is closing or closed already makes close() return at once
StartClose(p) ==
    [peers EXCEPT ![p] = IF peers[p].state = "open"
                         THEN [state |-> "closing", track |-> "stopped",
                               callback |-> "due"]
                         ELSE [peers[p] EXCEPT !.track = "stopped"]]

\* WebSocketDisconnect or another exception leaves the loop; finally:
\* close_connection(session_id) up to its await
RtcHandlerLeaves ==
    /\ variant = "webrtc"
    /\ pc = "receive"
    /\ IF Sid \in DOMAIN connections
       THEN LET p == connections[Sid]
            IN  /\ peers' = StartClose(p)
                /\ IF peers[p].state = "open"
                   THEN pc' = "closing" /\ pending' = p /\ UNCHANGED connections
                   ELSE \* close() returned without suspending: del
                        pc' = "done" /\ pending' = 0
                        /\ connections' = Remove(connections, Sid)
       ELSE pc' = "done" /\ UNCHANGED <<pending, peers, connections>>
    /\ UNCHANGED <<shutdown, rtcRest>>

\* pc.close() returns; del self.connections[session_id] (KeyError when
\* the entry is gone); the callback deletes under a membership test
DelIfPresent(k) ==
    IF k \in DOMAIN connections
    THEN [ok |-> TRUE, conns |-> Remove(connections, k)]
    ELSE [ok |-> TRUE, conns |-> connections]
Del(k) ==
    IF k \in DOMAIN connections
    THEN [ok |-> TRUE, conns |-> Remove(connections, k)]
    ELSE [ok |-> FALSE, conns |-> connections]

RtcCloseReturns ==
    /\ variant = "webrtc"
    /\ pc = "closing"
    /\ peers' = [peers EXCEPT ![pending].state = "closed"]
    /\ connections' = Del(Sid).conns
    /\ pc' = IF Del(Sid).ok THEN "done" ELSE "raised"
    /\ pending' = 0
    /\ UNCHANGED <<shutdown, rtcRest>>

\* on_connectionstatechange with connectionState == "closed", run by the
\* event loop at some point after the close began
RtcStateChange(p) ==
    /\ variant = "webrtc"
    /\ p \in DOMAIN peers
    /\ peers[p].callback = "due"
    /\ peers' = [peers EXCEPT ![p].callback = "ran", ![p].track = "stopped"]
    /\ connections' = DelIfPresent(Sid).conns
    /\ UNCHANGED <<pc, pending, shutdown, rtcRest>>

\* shutdown_event: for session_id in list(connections.keys()):
\* close_connection(session_id), up to its await
RtcShutdownStart ==
    /\ variant = "webrtc"
    /\ shutdown = "idle"
    /\ IF Sid \in DOMAIN connections
       THEN LET p == connections[Sid]
            IN  /\ peers' = StartClose(p)
                /\ IF peers[p].state = "open"
                   THEN shutdown' = "closing" /\ UNCHANGED connections
                   ELSE shutdown' = "done" /\ connections' = Remove(connections, Sid)
       ELSE shutdown' = "done" /\ UNCHANGED <<peers, connections>>
    /\ UNCHANGED <<pc, pending, rtcRest>>

\* the peer connection shutdown_event is closing: the one that is closing
\* and is not the handler's
ShutdownPeer == CHOOSE p \in DOMAIN peers : peers[p].state = "closing" /\ p # pending

RtcShutdownResumes ==
    /\ variant = "webrtc"
    /\ shutdown = "closing"
    /\ peers' = [peers EXCEPT ![ShutdownPeer].state = "closed"]
    /\ connections' = Del(Sid).conns
    /\ shutdown' = IF Del(Sid).ok THEN "done" ELSE "raised"
    /\ UNCHANGED <<pc, pending, rtcRest>>

RtcNext ==
    \/ RtcCreateOffer
    \/ RtcHandlerLeaves
    \/ RtcCloseReturns
    \/ \E p \in 1..MaxOffers : RtcStateChange(p)
    \/ RtcShutdownStart
    \/ RtcShutdownResumes

SpecRtc == RtcInit /\ [][RtcNext]_vars

\* ------------------------------------------------------------------
\* ultra_performance_viewer.py: the session pool under requests that are
\* still running while lifespan shuts down with close_all_sessions.
\* tried is the order in which `for session in self.session_pool.values()`
\* walks the keys present when the loop began, epIdx the number of keys
\* the iterator has handed out.
\* ------------------------------------------------------------------
\* f"stream_{ip}_{port}", f"scan_{ip}" and the default key
PoolKeys == {"stream_ip_port", "scan_ip", "default"}
Orders(S) ==
    {q \in [1..Cardinality(S) -> S] : \A i, j \in 1..Cardinality(S) : q[i] = q[j] => i = j}

PoolInit ==
    /\ variant = "ultra_pool" /\ frame_interval = 0
    /\ drop_strategy = "none" /\ quality = "high" /\ resolution = "auto"
    /\ pc = "idle" /\ epIdx = 0 /\ tried = <<>> /\ firstAvailable = 0
    /\ resp = NoResp
    /\ age = 0 /\ sinceEmit = 0 /\ gap = -1 /\ sleepLeft = 0 /\ slept = FALSE
    /\ recv = <<>> /\ pending = 0 /\ out = <<>>
    /\ IdleFlask
    /\ IdleExtract
    /\ IdleScan
    /\ Connected
    /\ IdleRtc
    /\ IdleStats
    /\ IdleCounters

poolRest == <<cfgVars, pc, firstAvailable, resp, timeVars, ioVars, flVars, exVars,
              scanVars, envVars, cntVars, sessions, active_streams,
              active_connections, connections, peers>>

\* a request that is running calls get_optimized_session(key); the call
\* has no await inside, and it cannot run between two steps of the closing
\* loop unless the loop is suspended in an await
PoolGet(k) ==
    /\ variant = "ultra_pool"
    /\ shutdown # "iterating"
    /\ GetSession({k})
    /\ UNCHANGED <<shutdown, tried, epIdx, poolRest>>

\* lifespan after `yield`: close_all_sessions begins its loop
CloseAllStart ==
    /\ variant = "ultra_pool"
    /\ shutdown = "idle"
    /\ tried' \in Orders(session_pool)
    /\ epIdx' = 0
    /\ shutdown' = "iterating"
    /\ UNCHANGED <<session_pool, client_sessions, poolRest>>

\* session.close(): the session reports closed from now on
CloseClient(k) ==
    {IF c.key = k /\ c.pooled THEN [c EXCEPT !.closed = TRUE] ELSE c : c \in client_sessions}
\* self.session_pool.clear()
Clear == {[c EXCEPT !.pooled = FALSE] : c \in client_sessions}

\* the loop asks the dict iterator for the next session: RuntimeError when
\* the dict has another size than at the start; after the last one
\* session_pool.clear(); otherwise `if not session.closed: await
\* session.close()`, which may or may not suspend
CloseAllNext(suspends) ==
    /\ variant = "ultra_pool"
    /\ shutdown = "iterating"
    /\ IF Cardinality(session_pool) # Len(tried)
       THEN /\ shutdown' = "raised"
            /\ UNCHANGED <<session_pool, client_sessions, epIdx>>
       ELSE IF epIdx = Len(tried)
       THEN /\ session_pool' = {}
            /\ client_sessions' = Clear
            /\ shutdown' = "done"
            /\ UNCHANGED epIdx
       ELSE LET k == tried[epIdx + 1]
                open == \E c \in client_sessions : c.key = k /\ c.pooled /\ ~c.closed
            IN  /\ client_sessions' = CloseClient(k)
                /\ epIdx' = epIdx + 1
                /\ shutdown' = IF open /\ suspends THEN "closing" ELSE "iterating"
                /\ UNCHANGED session_pool
    /\ UNCHANGED <<tried, poolRest>>

\* await session.close() returns
CloseAllResumes ==
    /\ variant = "ultra_pool"
    /\ shutdown = "closing"
    /\ shutdown' = "iterating"
    /\ UNCHANGED <<session_pool, client_sessions, tried, epIdx, poolRest>>

PoolNext ==
    \/ \E k \in PoolKeys : PoolGet(k)
    \/ CloseAllStart
    \/ \E b \in BOOLEAN : CloseAllNext(b)
    \/ CloseAllResumes

SpecPool == PoolInit /\ [][PoolNext]_vars

\* ------------------------------------------------------------------
\* webrtc_viewer.py DroidCamVideoTrack.recv: the track reads the upstream
\* response in chunks of at most 8192 bytes; after each chunk it calls
\* extract_jpeg_frame once and, when the frame decodes, returns it.
\* upstream is everything the camera sends, pos what the track has read,
\* frames what extract_jpeg_frame has returned, out what recv has returned.
\* ------------------------------------------------------------------
\* black frames recorded after the track stopped receiving
MaxBlack == 2

FramePiece(f) == [kind |-> "frame", payload |-> f]
BlackPiece == [kind |-> "black", payload |-> <<>>]
Blacks == Cardinality({i \in DOMAIN out : out[i].kind = "black"})

\* the camera sends some bytes without an SOI, then two complete frames
TrackFrames == {FrameA, FrameB}

TrackInit ==
    /\ variant = "webrtc_track" /\ frame_interval = 0
    /\ drop_strategy = "none" /\ quality = "high" /\ resolution = "auto"
    /\ pc = "receiving" /\ epIdx = 0 /\ tried = <<>> /\ firstAvailable = 0
    /\ resp = NoResp
    /\ age = 0 /\ sinceEmit = 0 /\ gap = -1 /\ sleepLeft = 0 /\ slept = FALSE
    /\ recv = <<>> /\ pending = 0 /\ out = <<>>
    /\ IdleFlask
    /\ \E g \in Garbage, f1 \in TrackFrames, f2 \in TrackFrames : upstream = g \o f1 \o f2
    /\ pos = 0 /\ chunkStart = 0 /\ buffer = <<>> /\ frames = <<>>
    /\ IdleScan
    /\ Connected
    /\ IdleRtc
    /\ IdleStats
    /\ IdleCounters

trackRest == <<cfgVars, epIdx, tried, firstAvailable, resp, timeVars, recv, pending,
               flVars, upstream, scanVars, envVars, statVars, cntVars, rtcVars>>

\* chunk = await content.read(8192) gives n bytes; frame_buffer += chunk;
\* extract_jpeg_frame(b"") cuts at most one frame; cv2.imdecode gives an
\* image or None; with an image recv returns, otherwise the loop reads on
TrackChunk(n, decodes) ==
    /\ variant = "webrtc_track"
    /\ pc = "receiving"
    /\ pos + n <= Len(upstream)
    /\ LET chunk == SubSeq(upstream, pos + 1, pos + n)
           s     == ExtractStep(buffer \o chunk)
       IN  /\ buffer' = s.rest
           /\ frames' = IF s.found THEN Append(frames, s.frame) ELSE frames
           /\ out' = IF s.found /\ decodes THEN Append(out, FramePiece(s.frame)) ELSE out
    /\ chunkStart' = pos
    /\ pos' = pos + n
    /\ UNCHANGED <<pc, trackRest>>

\* read() returns b"" once upstream has sent everything and closed: `if
\* not chunk: break`, recv returns a black frame
TrackUpstreamClose ==
    /\ variant = "webrtc_track"
    /\ pc = "receiving"
    /\ pos = Len(upstream)
    /\ pc' = "closed"
    /\ out' = Append(out, BlackPiece)
    /\ UNCHANGED <<exVars, trackRest>>

\* read() raises: `except Exception`, recv returns a black frame; what
\* upstream had not delivered yet is lost with the connection
TrackUpstreamError ==
    /\ variant = "webrtc_track"
    /\ pc = "receiving"
    /\ pos < Len(upstream)
    /\ pc' = "closed"
    /\ out' = Append(out, BlackPiece)
    /\ UNCHANGED <<exVars, trackRest>>

\* stop(): running = False, the reading loop is not entered any more
TrackStop ==
    /\ variant = "webrtc_track"
    /\ pc = "receiving"
    /\ pc' = "stopped"
    /\ UNCHANGED <<out, exVars, trackRest>>

\* a recv call after the end: stream_response is still set, the loop is
\* skipped or read() gives b"" again, a black frame is returned
TrackBlack ==
    /\ variant = "webrtc_track"
    /\ pc \in {"closed", "stopped"}
    /\ Blacks < MaxBlack
    /\ out' = Append(out, BlackPiece)
    /\ UNCHANGED <<pc, exVars, trackRest>>

TrackNext ==
    \/ \E n \in 1..(2 * MaxLen + 2), d \in BOOLEAN : TrackChunk(n, d)
    \/ TrackUpstreamClose
    \/ TrackUpstreamError
    \/ TrackStop
    \/ TrackBlack

SpecTrack == TrackInit /\ [][TrackNext]_vars

\* ------------------------------------------------------------------
\* cv.py /api/scan: HEAD each endpoint in turn, GET it again for a preview
\* when the status is 400 or more; results is a list, one dict appended
\* per endpoint
\* ------------------------------------------------------------------
FlaskScanEndpoints == <<"/video", "/mjpegfeed", "", "/jpg", "/h264">>

\* the dict appended for an endpoint whose last response was o
FlaskScanEntry(url, o) ==
    IF o.err
    THEN [url |-> url, error |-> "exception", available |-> FALSE]
    ELSE [url |-> url, status |-> o.status, content_type |-> o.ctype,
          available |-> (o.status = 200),
          preview |-> IF o.status >= 400 THEN "body" ELSE ""]

FlaskScanInit ==
    /\ variant = "flask_scan"
    /\ frame_interval = 0 /\ drop_strategy = "none"
    /\ quality = "high" /\ resolution = "auto"
    /\ pc = "scan" /\ epIdx = 1 /\ tried = <<>> /\ firstAvailable = 0
    /\ resp = NoResp
    /\ age = 0 /\ sinceEmit = 0 /\ gap = -1 /\ sleepLeft = 0 /\ slept = FALSE
    /\ recv = <<>> /\ pending = 0 /\ out = <<>>
    /\ IdleFlask
    /\ IdleExtract
    /\ scan_results = EmptyDict /\ results = <<>> /\ answers = EmptyDict
    /\ Connected
    /\ IdleRtc
    /\ IdleStats
    /\ IdleCounters

\* one iteration of `for endpoint in endpoints`: the HEAD request ends as
\* h; on a status of 400 or more the GET that follows ends as g
FlaskScanProbe(h, g) ==
    /\ variant = "flask_scan"
    /\ pc = "scan"
    /\ epIdx <= Len(FlaskScanEndpoints)
    /\ LET o == IF ~h.err /\ h.status >= 400 THEN g ELSE h
       IN  /\ answers' = Put(answers, FlaskScanEndpoints[epIdx], o)
           /\ results' = Append(results, FlaskScanEntry(FlaskScanEndpoints[epIdx], o))
    /\ tried' = Append(tried, epIdx)
    /\ epIdx' = epIdx + 1
    /\ UNCHANGED <<cntVars, statVars, client, rtcVars, cfgVars, pc, firstAvailable, resp,
                   timeVars, ioVars, flVars, exVars, scan_results>>

\* return jsonify(results)
FlaskScanReturn ==
    /\ variant = "flask_scan"
    /\ pc = "scan"
    /\ epIdx > Len(FlaskScanEndpoints)
    /\ pc' = "returned"
    /\ UNCHANGED <<cntVars, statVars, envVars, rtcVars, cfgVars, epIdx, tried, firstAvailable,
                   resp, timeVars, ioVars, flVars, exVars, scanVars>>

FlaskScanNext ==
    \/ \E h \in ConnectOutcomes, g \in ConnectOutcomes : FlaskScanProbe(h, g)
    \/ FlaskScanReturn

\* every scanner of the repository
SpecAllScans == (ScanInit \/ FlaskScanInit) /\ [][ScanNext \/ FlaskScanNext]_vars

\* ------------------------------------------------------------------
\* The FPS block of the chunk relays, followed with the bytes the chunks
\* carry: ultra_high_performance_stream streaming from /video, the
\* upstream sending whole frames back to back and iter_chunked handing
\* them over in chunks of any length.  The pacing sleep and the yield
\* after it are one step here.
\* ------------------------------------------------------------------
RECURSIVE FrameStreams(_)
FrameStreams(n) ==
    IF n = 0 THEN {<<>>}
    ELSE FrameStreams(n - 1)
            \cup {s \o f : s \in FrameStreams(n - 1), f \in {FrameA, FrameB}}

BytesInit ==
    /\ variant = "ultra_bytes"
    /\ frame_interval \in FrameIntervals
    /\ drop_strategy \in DropStrategies
    /\ quality = "high" /\ resolution = "auto"
    /\ pc = "read" /\ epIdx = 1 /\ tried = <<1>> /\ firstAvailable = 1
    /\ resp = [status |-> 200, ctype |-> Mixed]
    /\ age = AgeCap /\ sinceEmit = AgeCap /\ gap = -1
    /\ sleepLeft = 0 /\ slept = FALSE
    /\ recv = <<>> /\ pending = 0 /\ out = <<>>
    /\ IdleFlask
    /\ upstream \in FrameStreams(MaxItems)
    /\ pos = 0 /\ chunkStart = 0 /\ buffer = <<>> /\ frames = <<>>
    /\ IdleScan
    /\ Connected
    /\ IdleRtc
    /\ IdleStats
    /\ IdleCounters

\* one iteration of `async for chunk in iter_chunked(CHUNK_SIZE)`: the next
\* n bytes arrive d ticks after the previous chunk
BytesReadChunk(n, d) ==
    /\ variant = "ultra_bytes"
    /\ pc = "read"
    /\ pos + n <= Len(upstream)
    /\ recv' = Append(recv, epIdx)
    /\ chunkStart' = pos
    /\ pos' = pos + n
    /\ total_chunks' = total_chunks + 1
    /\ total_bytes' = total_bytes \cup {Len(recv) + 1}
    /\ LET elapsed == Min2(AgeCap, age + d)
           chunk   == SubSeq(upstream, pos + 1, pos + n)
           piece   == [ChunkPiece(Len(recv) + 1) EXCEPT !.payload = chunk]
       IN  IF frame_interval > 0 /\ elapsed < frame_interval /\ Drops(drop_strategy)
           THEN \* continue: the chunk is skipped
                /\ age' = elapsed
                /\ UNCHANGED <<out, slept>>
           ELSE \* (sleep,) last_frame_time = time.time(), yield chunk
                /\ age' = IF frame_interval > 0 THEN 0 ELSE elapsed
                /\ out' = Append(out, piece)
                /\ slept' = (slept \/ (frame_interval > 0 /\ elapsed < frame_interval))
    /\ UNCHANGED <<statVars, envVars, scanVars, rtcVars, cfgVars, flVars, pc, epIdx, tried,
                   firstAvailable, resp, sinceEmit, gap, sleepLeft, pending,
                   upstream, buffer, frames, frames_processed, bytes_transferred>>

\* the upstream has sent everything and ends the body: `return`
BytesUpstreamClose ==
    /\ variant = "ultra_bytes"
    /\ pc = "read"
    /\ pos = Len(upstream)
    /\ pc' = "done"
    /\ resp' = NoResp
    /\ UNCHANGED <<cntVars, statVars, envVars, scanVars, rtcVars, cfgVars, flVars, epIdx, tried,
                   firstAvailable, timeVars, ioVars, exVars>>

BytesNext ==
    \/ \E n \in 1..MaxChunkLen, d \in EfElapse : BytesReadChunk(n, d)
    \/ BytesUpstreamClose

SpecBytes == BytesInit /\ [][BytesNext]_vars

\* ------------------------------------------------------------------
\* All programs: one relay session or one scan of any of them.  The
\* concurrent sessions (SpecActive) and the byte view of the chunk relay
\* (SpecBytes) are further views of "ultra" and are kept apart.
\* ------------------------------------------------------------------
Init == RelayInit \/ RouteInit \/ EfInit \/ FlaskInit \/ ScanInit \/ FlaskScanInit
Next == RelayNext \/ RouteNext \/ EfNext \/ FlaskNext \/ ScanNext \/ FlaskScanNext
Spec == Init /\ [][Next]_vars

\* ------------------------------------------------------------------
\* C1  Chunk-boundary independence: whatever the chunking of the bytes
\* delivered so far, the frames cut out (and the bytes left in the
\* buffer) are those obtained by feeding the same bytes as one chunk.
\* ------------------------------------------------------------------
Delivered == SubSeq(upstream, 1, pos)

FramesServed ==
    Cardinality({i \in 1..(Len(upstream) - 1) : SubSeq(upstream, i, i + 1) = SOI})

C2_AllFramesThenEnd ==
    (variant = "ef_route" /\ frame_interval = 0 /\ pc = "done") =>
        /\ Len(frames) = FramesServed
        /\ Len(out) = FramesServed
        /\ \A i \in 1..Len(out) :
              /\ out[i].kind = "part"
              /\ out[i].id = i
              /\ out[i].payload \in {frames[i], Encoded(frames[i])}

\* an upstream of two frames, the second left unencoded, has closed
C2_Witness ==
    /\ variant = "ef_route" /\ frame_interval = 0 /\ pc = "done"
    /\ FramesServed = 2
    /\ Len(out) = 2
    /\ out[1].payload = Encoded(frames[1])
    /\ out[2].payload = frames[2]

\* ------------------------------------------------------------------
\* C3  Framing.  As stated: every piece written while streaming (every
\* piece but the final error text) is a well-formed multipart part.
\* ------------------------------------------------------------------
WellFormedPart(p) ==
    /\ p.kind = "part"
    /\ p.boundary = "--frame"
    /\ p.ctype = "image/jpeg"
    /\ p.clen = Len(p.payload)

Received == IF variant = "ef_route" THEN Len(frames) ELSE Len(recv)

C4_Ordering ==
    /\ \A i \in 1..Len(out) :
          out[i].kind # "text" => out[i].id \in 1..Received
    /\ \A i, j \in 1..Len(out) :
          (i < j /\ out[i].kind # "text" /\ out[j].kind # "text")
              => out[i].id < out[j].id
    /\ \A i \in 1..Len(out) : out[i].kind = "text" => i = Len(out)

\* the Flask session has evicted a buffered chunk and flushed later ones
C4_Witness ==
    /\ variant = "flask"
    /\ Len(out) >= 3
    /\ \E i \in 1..(Len(out) - 1) : out[i + 1].id > out[i].id + 1

\* ------------------------------------------------------------------
\* C5  WaitToPace spacing: with an fps limit and no drop strategy two
\* consecutive pieces are written at least one frame interval apart.
\* ------------------------------------------------------------------
C5_Spacing ==
    (frame_interval > 0 /\ drop_strategy = "none")
        => (gap = -1 \/ gap >= frame_interval)

\* ------------------------------------------------------------------
\* C6  Under drop_strategy=latest no pacing sleep is ever executed.
\* ------------------------------------------------------------------
C6_LatestNeverSleeps ==
    drop_strategy = "latest" => (~slept /\ pc # "sleep")

\* ------------------------------------------------------------------
\* C7  Probe priority: candidates are contacted in list order, one at a
\* time; once one has been found Available no later one is contacted;
\* failure is reported only after each has been tried exactly once.
\* ------------------------------------------------------------------
InListOrder == \A i \in 1..Len(tried) : tried[i] = i

C7_ProbePriority ==
    /\ InListOrder
    /\ firstAvailable # 0 => tried[Len(tried)] = firstAvailable
    /\ (pc \in {"failed", "raised"} /\ firstAvailable = 0)
          => Len(tried) = Len(Endpoints(variant))

\* ------------------------------------------------------------------
\* C8  Probe classification: an endpoint is classified available if and
\* only if the response had status 200 and a Content-Type containing
\* multipart/x-mixed-replace or image/jpeg.
\* ------------------------------------------------------------------
C8_AvailableIff200Mjpeg ==
    \A e \in DOMAIN results :
        results[e].status # "error" =>
            (results[e].status = "available"
                <=> (results[e].status_code = 200
                     /\ IsMjpeg(results[e].content_type)))

\* ------------------------------------------------------------------
\* C9  Connect-phase failover.  As stated, for every /stream route: a
\* session that failed without having opened a stream has contacted
\* every candidate path its program knows.
\* ------------------------------------------------------------------
\* the candidate paths of the program a route belongs to
Candidates(v) ==
    CASE v = "ef_route"      -> Endpoints("ef_fps")
      [] v = "fastapi_route" -> Endpoints("fastapi_fps")
      [] OTHER               -> Endpoints(v)

Contacted == {Endpoints(variant)[tried[i]] : i \in 1..Len(tried)}

StreamRoutes == ChunkRelays \cup {"fastapi_route", "ef_route", "flask"}
FailedAtConnect ==
    /\ variant \in StreamRoutes
    /\ pc \in {"failed", "raised", "http502"}
    /\ firstAvailable = 0

C10_NoMidStreamRetry ==
    (variant \in ChunkRelays /\ \E i \in 1..Len(out) : out[i].kind = "chunk")
        => /\ \A i \in 1..Len(out) :
                 out[i].kind = "chunk" => recv[out[i].id] = recv[out[1].id]
           /\ tried[Len(tried)] = recv[out[1].id]

\* ------------------------------------------------------------------
\* C11  Total failure before any frame: the client receives a
\* non-streaming response with status 502 or 503 whose body lists every
\* endpoint tried together with its outcome.
\* ------------------------------------------------------------------
\* status line the client receives: the FastAPI routes return
\* StreamingResponse(generate()) before the generator has contacted any
\* endpoint; cv.py answers after probing; a stream_with_fps_limit
\* generator raises HTTPException(503) to its caller
ResponseStatus ==
    CASE variant \in {"ultra", "fastapi_route", "ef_route"} -> 200
      [] variant = "flask" ->
            IF pc = "http502" THEN 502 ELSE IF pc = "connect" THEN 0 ELSE 200
      [] variant \in {"fastapi_fps", "ef_fps"} ->
            IF pc = "raised" THEN 503 ELSE 0
      [] OTHER -> 0

\* what the text sent on total failure names
ErrorBody ==
    CASE variant = "flask" -> [endpoints |-> TRUE, outcomes |-> FALSE]
      [] OTHER -> [endpoints |-> FALSE, outcomes |-> FALSE]

C11_TotalFailureStatus ==
    FailedAtConnect =>
        /\ ResponseStatus \in {502, 503}
        /\ ErrorBody.endpoints
        /\ ErrorBody.outcomes

\* ------------------------------------------------------------------
\* C12  Cancellation: once the client of a FastAPI relay session is
\* gone the session has stopped at its suspension point with the
\* upstream response released, and it reads and writes nothing more.
\* ------------------------------------------------------------------
AsyncRelays == ChunkRelays \cup {"fastapi_route", "ef_route"}

C12_Cancellation ==
    /\ []((variant \in AsyncRelays /\ client = "gone")
             => (pc = "cancelled" /\ resp = NoResp))
    /\ [][(variant \in AsyncRelays /\ client = "gone")
             => (out' = out /\ recv' = recv /\ pos' = pos /\ pc' = pc)]_vars

\* the client left while the session was sleeping to pace a frame, after
\* a part had been written
C12_Witness ==
    /\ variant = "ef_route"
    /\ client = "gone"
    /\ pc = "cancelled"
    /\ Len(out) >= 1
    /\ sleepLeft > 0
    /\ pending > Len(out)

\* ------------------------------------------------------------------
\* C13  No connection leak: after a session has ended no upstream
\* response it opened is still open.
\* ------------------------------------------------------------------
Ended == pc \in {"done", "failed", "raised", "http502", "cancelled"}

C13_NoLeak == Ended => resp = NoResp

\* ------------------------------------------------------------------
\* C14  Error payload: a session that ended on an exception after it had
\* started streaming wrote exactly one error payload, as its last piece.
\* ------------------------------------------------------------------
StreamFailed == firstAvailable # 0 /\ pc \in {"failed", "raised"}

TextPieces == {i \in 1..Len(out) : out[i].kind = "text"}

C14_OneErrorPayload ==
    StreamFailed =>
        /\ out # <<>>
        /\ TextPieces = {Len(out)}

\* ------------------------------------------------------------------
\* C15  Balanced counter: active_connections is the number of sessions
\* of the shared streamer that have started and not yet ended, however
\* each ended; it is never negative and is 0 once all have ended.
\* ------------------------------------------------------------------
Started == {s \in DOMAIN sessions : sessions[s].state \in Running}

C15_BalancedCounter ==
    /\ get_performance_stats = Cardinality(Started)
    /\ get_performance_stats >= 0
    /\ (\A s \in DOMAIN sessions : sessions[s].state = "ended")
           => get_performance_stats = 0

\* all sessions have ended, in every one of the ways a session ends
C15_Witness ==
    /\ variant = "ultra_stats"
    /\ \A s \in DOMAIN sessions : sessions[s].state = "ended"
    /\ {sessions[s].how : s \in DOMAIN sessions} = {"return", "raise", "cancel"}
    /\ active_connections = 0

\* ------------------------------------------------------------------
\* C16  A host that answers 200 text/html on /video and refuses every
\* other candidate contacted yields one wrong-content-type result, for
\* /video, which is neither the error outcome nor "nothing found".
\* ------------------------------------------------------------------
HtmlAnswer == [err |-> FALSE, status |-> 200, ctype |-> "text/html"]

HtmlOnVideoOnly ==
    /\ "/video" \in DOMAIN answers
    /\ answers["/video"] = HtmlAnswer
    /\ \A e \in DOMAIN answers \ {"/video"} : answers[e] = ConnectError

C16_WrongContentType ==
    /\ (variant \in {"fastapi_scan", "ef_scan", "ultra_scan"} /\ pc = "returned"
           /\ HtmlOnVideoOnly)
          => /\ results["/video"].status = "not_mjpeg"
             /\ {e \in DOMAIN results : results[e].status # "error"} = {"/video"}
    /\ (variant = "advanced_scan" /\ pc = "returned" /\ HtmlOnVideoOnly)
          => /\ results # NoneResult
             /\ results.endpoint = "/video"
             /\ results.status = "HTML_RESPONSE"
    /\ (variant \in {"fastapi_route", "ef_route"} /\ pc = "failed" /\ HtmlOnVideoOnly)
          => /\ out = <<RejectText(HtmlAnswer)>>
             /\ out[1].text \notin {RejectText(ConnectError).text,
                                    RejectText([HtmlAnswer EXCEPT !.status = 404]).text}

\* scan_endpoints has returned after /video answered 200 text/html and
\* both other endpoints refused the connection
C16_Witness ==
    /\ variant = "fastapi_scan"
    /\ pc = "returned"
    /\ HtmlOnVideoOnly
    /\ DOMAIN answers = {"/video", "/mjpegfeed", "/"}
    /\ results["/mjpegfeed"].status = "error"

\* ------------------------------------------------------------------
\* C17  drop_strategy=oldest is observably identical to latest: every
\* step a session takes under one of the two is the step the code takes
\* under the other (same frames emitted, dropped and delayed).
\* ------------------------------------------------------------------
PacingStep ==
    \/ \E d \in Elapse : RelayReadChunk(d)
    \/ EfCut

PacingStepAs(ds) ==
    \/ \E d \in Elapse : RelayReadChunkAs(ds, d)
    \/ EfCutAs(ds)

Swapped(ds) == IF ds = "oldest" THEN "latest" ELSE "oldest"

SameAsSwapped ==
    (drop_strategy \in {"oldest", "latest"} /\ pc \in {"read", "cut"} /\ PacingStep)
        => PacingStepAs(Swapped(drop_strategy))

BufferCap == Len(FrameB)

C18_BufferBounded == Len(buffer) <= BufferCap

\* ------------------------------------------------------------------
\* C19  A frame that fails to decode or to re-encode does not end the
\* session: the /stream route of ef.py writes the frame's original bytes
\* as a part whose Content-Length is their length, and goes on.
\* ------------------------------------------------------------------
TranscodeFailures == TranscodeOutcomes \ {"ok"}

ForwardsOriginal ==
    \A t \in TranscodeFailures, d \in Overshoot :
        EfEmit(t, d) =>
            /\ Len(out') = Len(out) + 1
            /\ out'[Len(out')].kind = "part"
            /\ out'[Len(out')].payload = frames[pending]
            /\ out'[Len(out')].clen = Len(frames[pending])
            /\ pc' = "cut"
            /\ resp' = resp /\ resp # NoResp

C19_DecodeFailureForwardsRaw == [][ForwardsOriginal]_vars

\* with transcoding on, the first frame went out raw (it failed to decode
\* or encode) and the frame after it went out re-encoded
C19_Witness ==
    /\ variant = "ef_route"
    /\ Transcodes
    /\ Len(out) = 2
    /\ out[1].payload = frames[1]
    /\ out[1].clen = Len(frames[1])
    /\ out[2].payload = Encoded(frames[2])

\* ------------------------------------------------------------------
\* C20  Streaming only from Available: while a session relays an
\* upstream response, that response had status 200 and a content type
\* containing multipart/x-mixed-replace or image/jpeg.
\* ------------------------------------------------------------------
Relayed == \E i \in 1..Len(out) : out[i].kind \in {"chunk", "part"}

C20_StreamingOnlyFromAvailable ==
    /\ (variant \in StreamRoutes /\ Relayed /\ resp # NoResp)
          => (resp.status = 200 /\ IsMjpeg(resp.ctype))
    /\ (variant \in {"fastapi_route", "ef_route"} /\ Relayed)
          => Accepted(answers["/video"])

\* ------------------------------------------------------------------
\* C21  Counters: the frame and byte counters that /api/stats reads have
\* grown by exactly the frames, and the bytes of the frames, that the
\* session has written; frames that were dropped are not counted.
\* ------------------------------------------------------------------
Written == {i \in 1..Len(out) : out[i].kind \in {"chunk", "part"}}
WrittenIds == {out[i].id : i \in Written}

C21_CountersMatchOutput ==
    /\ (variant = "ultra" /\ pc # "sleep")           \* no chunk is waiting
          => (total_chunks = Cardinality(Written) /\ total_bytes = WrittenIds)
    /\ (variant = "ef_fps" /\ pc # "sleep")
          => (frames_processed = Cardinality(Written)
              /\ bytes_transferred = WrittenIds)
    /\ variant = "ef_route"
          => frames_processed = Cardinality(Written)

\* ------------------------------------------------------------------
\* C22  Scan completeness: the result of /api/scan holds exactly one
\* entry for each candidate attempted, and each entry is the one that
\* candidate's own answer gives, whatever the others answered and in
\* whatever order the concurrent probes finished.
\* ------------------------------------------------------------------
ApiScanners == {"fastapi_scan", "ef_scan", "ultra_scan"}

C22_OneEntryPerCandidate ==
    /\ (variant \in ApiScanners /\ pc = "returned")
          => /\ DOMAIN results = DOMAIN answers
             /\ DOMAIN results =
                   {ScanEndpoints(variant)[i] : i \in 1..Len(ScanEndpoints(variant))}
             /\ \A e \in DOMAIN results : results[e] = ScanEntry(answers[e])
    /\ (variant \in {"fastapi_scan", "ef_scan"} /\ pc = "scan")
          => /\ DOMAIN results = DOMAIN answers
             /\ \A e \in DOMAIN results : results[e] = ScanEntry(answers[e])
    /\ variant = "flask_scan"
          => /\ Len(results) = Len(tried)
             /\ pc = "returned" => Len(results) = Len(FlaskScanEndpoints)
             /\ DOMAIN answers = {FlaskScanEndpoints[i] : i \in 1..Len(results)}
             /\ \A i \in 1..Len(results) :
                   results[i] = FlaskScanEntry(FlaskScanEndpoints[i],
                                               answers[FlaskScanEndpoints[i]])

\* the concurrent scanner has returned with all three kinds of outcome,
\* the last candidate of its list having failed
C22_Witness ==
    /\ variant = "ultra_scan"
    /\ pc = "returned"
    /\ {results[e].status : e \in DOMAIN results} = {"available", "not_mjpeg", "error"}
    /\ results["/"].status = "error"
    /\ results["/video"].status = "available"

\* ------------------------------------------------------------------
\* C23  Rate decisions act on whole frames: the bytes a rate-limited
\* session has written, once it has ended, are complete frames of the
\* upstream one after another, with no fragment of a frame among them.
\* ------------------------------------------------------------------
RECURSIVE Flatten(_)
Flatten(ss) == IF ss = <<>> THEN <<>> ELSE Head(ss) \o Flatten(Tail(ss))

\* the bytes written downstream by the pieces of ps
Concat(ps) == Flatten([i \in 1..Len(ps) |-> ps[i].payload])

WholeFrames(bytes) ==
    LET r == ExtractAll(bytes)
    IN  /\ Flatten(r.frames) = bytes
        /\ \A i \in 1..Len(r.frames) : r.frames[i] \in {FrameA, FrameB}

C23_WholeFramesOnly ==
    /\ (variant = "ultra_bytes" /\ pc = "done") => WholeFrames(Concat(out))
    /\ variant = "ef_route"
          => \A i \in 1..Len(out) :
                out[i].kind = "part"
                   => out[i].payload \in {frames[out[i].id], Encoded(frames[out[i].id])}

\* ------------------------------------------------------------------
\* C24  Buffer consumption: the bytes delivered so far are, in order,
\* the extracted frames, each preceded by the bytes skipped before its
\* SOI, followed by exactly the buffer; so the frames lie at disjoint
\* places and the buffer starts after the last frame's EOI.
\* ------------------------------------------------------------------
RECURSIVE Consumed(_, _, _)
Consumed(fs, bytes, rest) ==
    IF fs = <<>> THEN bytes = rest
    ELSE \E k \in 0..(Len(bytes) - Len(Head(fs))) :
            /\ SubSeq(bytes, k + 1, k + Len(Head(fs))) = Head(fs)
            /\ Consumed(Tail(fs), SubSeq(bytes, k + Len(Head(fs)) + 1, Len(bytes)), rest)

C24_ConsumedThroughEOI == Consumed(frames, Delivered, buffer)

\* two equal frames were sent back to back and both have been cut out,
\* each once, leaving the buffer empty
C24_Witness ==
    /\ variant = "ef_route"
    /\ upstream = FrameA \o FrameA
    /\ frames = <<FrameA, FrameA>>
    /\ buffer = <<>>

\* ------------------------------------------------------------------
\* C25  Marker anchoring: every extracted frame runs from the first SOI
\* of the bytes not yet consumed to the first EOI that begins two or
\* more bytes after that SOI; what stays in the buffer has no such pair.
\* ------------------------------------------------------------------
MarkerAt(bytes, m) ==
    {i \in 1..(Len(bytes) - 1) : bytes[i] = m[1] /\ bytes[i + 1] = m[2]}
FirstSOI(bytes) == Min(MarkerAt(bytes, SOI))
EOIAfter(bytes, s) == {e \in MarkerAt(bytes, EOI) : e >= s + 2}

RECURSIVE Anchored(_, _, _)
Anchored(fs, bytes, rest) ==
    LET sois == MarkerAt(bytes, SOI)
    IN  IF fs = <<>>
        THEN /\ rest = bytes
             /\ sois # {} => EOIAfter(bytes, FirstSOI(bytes)) = {}
        ELSE /\ sois # {}
             /\ EOIAfter(bytes, FirstSOI(bytes)) # {}
             /\ LET s == FirstSOI(bytes)
                    e == Min(EOIAfter(bytes, s))
                IN  /\ Head(fs) = SubSeq(bytes, s, e + 1)
                    /\ Anchored(Tail(fs), SubSeq(bytes, e + 2, Len(bytes)), rest)

C25_MarkerAnchoring == Anchored(frames, Delivered, buffer)

\* a second SOI came before the EOI: it is inside the one frame cut out
C25_Witness ==
    /\ variant = "none"
    /\ upstream = SOI \o SOI \o EOI
    /\ frames = <<SOI \o SOI \o EOI>>
    /\ buffer = <<>>

\* an EOI came before the first SOI: the frame ends at the later EOI
C25_EarlyEOI ==
    /\ variant = "none"
    /\ upstream = EOI \o SOI \o EOI
    /\ frames = <<SOI \o EOI>>

\* ------------------------------------------------------------------
\* C26  An incomplete frame is withheld: when the buffer holds an SOI
\* with no EOI after it, a further chunk that brings no EOI yields no
\* frame and takes nothing out of the buffer; a chunk that completes
\* the EOI yields the frame made of all bytes from that SOI through the
\* EOI, and that frame alone when the chunk completes one EOI only; no
\* step yields bytes that do not end with an EOI.
\* ------------------------------------------------------------------
Incomplete(bytes) ==
    /\ MarkerAt(bytes, SOI) # {}
    /\ EOIAfter(bytes, FirstSOI(bytes)) = {}

Withheld ==
    LET b == buffer \o SubSeq(upstream, pos + 1, pos')
        s == FirstSOI(b)
    IN  /\ \A i \in (Len(frames) + 1)..Len(frames') :
               /\ Len(frames'[i]) >= 4
               /\ SubSeq(frames'[i], Len(frames'[i]) - 1, Len(frames'[i])) = EOI
        /\ (Incomplete(buffer) /\ pos' > pos) =>
            IF Incomplete(b)
            THEN frames' = frames /\ buffer' = b
            ELSE /\ Len(frames') > Len(frames)
                 /\ frames'[Len(frames) + 1] = SubSeq(b, s, Min(EOIAfter(b, s)) + 1)
                 /\ Cardinality(EOIAfter(b, s)) = 1 => Len(frames') = Len(frames) + 1

C26_IncompleteWithheld == [][Withheld]_vars

\* SOI and a payload byte came as one chunk and were held back; the EOI
\* came with the next chunk and the three-part frame was cut
C26_Witness ==
    /\ variant = "none"
    /\ Len(upstream) >= 5
    /\ SubSeq(upstream, 1, 5) = SOI \o <<PayloadByte>> \o EOI
    /\ chunkStart = 3
    /\ pos = 5
    /\ frames = <<SOI \o <<PayloadByte>> \o EOI>>
    /\ buffer = <<>>

\* ------------------------------------------------------------------
\* C27  A buffer garbage, SOI A EOI, SOI B EOI (no SOI in the garbage,
\* no marker in A and B) is cut into exactly the two frames SOI A EOI
\* and SOI B EOI, in that order, and nothing is left in the buffer.
\* ------------------------------------------------------------------
StartsWith(bytes, p) == Len(bytes) >= Len(p) /\ SubSeq(bytes, 1, Len(p)) = p

C27_GarbageThenTwoFrames ==
    pos = Len(upstream) =>
        \A g \in Garbage : StartsWith(upstream, g \o SOI) =>
            \A a \in Plain : StartsWith(upstream, g \o SOI \o a \o EOI \o SOI) =>
                \A b \in Plain : upstream = TwoFrames(g, a, b) =>
                    /\ frames = <<SOI \o a \o EOI, SOI \o b \o EOI>>
                    /\ buffer = <<>>

\* garbage that holds an EOI and a lone FF, then two frames, given to
\* the loop as one buffer
C27_Witness ==
    /\ upstream = TwoFrames(<<xD9, xFF>>, <<xD8>>, <<PayloadByte, xFF>>)
    /\ chunkStart = 0
    /\ pos = Len(upstream)
    /\ frames = <<SOI \o <<xD8>> \o EOI, SOI \o <<PayloadByte, xFF>> \o EOI>>
    /\ buffer = <<>>

\* ------------------------------------------------------------------
\* C28  A drop leaves the rate state unchanged: over a step that drops a
\* frame under drop_strategy=latest the time since the last-emit
\* timestamp grows exactly as the time since the last emission does, so
\* whenever a frame is judged after something was written from the same
\* upstream response, its elapsed time is the time since the last frame
\* actually written.
\* ------------------------------------------------------------------
DropStep ==
    /\ drop_strategy = "latest"
    /\ frame_interval > 0
    /\ \/ /\ variant \in ChunkRelays
          /\ pc = "read" /\ pc' = "read"
          /\ Len(recv') = Len(recv) + 1
          /\ out' = out
       \/ /\ variant = "ef_route"
          /\ pc = "cut" /\ pc' = "cut"
          /\ Len(frames') = Len(frames) + 1

TimestampKept ==
    \E d \in 0..AgeCap :
        /\ age' = Min2(AgeCap, age + d)
        /\ sinceEmit' = Min2(AgeCap, sinceEmit + d)

WrittenFromThisResponse ==
    IF variant = "ef_route" THEN Written # {}
    ELSE \E i \in WrittenIds : recv[i] = epIdx

MeasuredFromLastEmit ==
    (/\ drop_strategy = "latest"
     /\ frame_interval > 0
     /\ variant \in ChunkRelays \cup {"ef_route"}
     /\ pc \in {"read", "cut"}
     /\ WrittenFromThisResponse) => age = sinceEmit

\* a frame is only ever dropped after one was written from the same
\* response, and then both clocks agree before and after the drop
C28_DropKeepsTimestamp ==
    /\ [][DropStep => (TimestampKept /\ WrittenFromThisResponse /\ age' = sinceEmit')]_vars
    /\ []MeasuredFromLastEmit

\* under latest the second chunk came early and was dropped; the third
\* was written a full interval after the first
C28_Witness ==
    /\ variant \in ChunkRelays
    /\ drop_strategy = "latest"
    /\ frame_interval > 0
    /\ Len(recv) = 3
    /\ WrittenIds = {1, 3}
    /\ gap = frame_interval

\* ------------------------------------------------------------------
\* C29  The rate governor never buffers: at most one frame (the current
\* one) is held for output, and while the session waits for the next
\* chunk none is held.
\* ------------------------------------------------------------------
Held == Len(jitter_buffer) + (IF pending # 0 THEN 1 ELSE 0)

C29_NeverBuffers ==
    /\ Held <= 1
    /\ pc = "read" => Held = 0

\* ------------------------------------------------------------------
\* C30  A scan persists nothing: no step of a scan call changes the
\* process state (session pool, active-stream registry, counters).
\* ------------------------------------------------------------------
C30_ScanPersistsNothing ==
    [][(variant \in Scanners \cup {"flask_scan"}) => UNCHANGED <<statVars, cntVars>>]_vars

\* ------------------------------------------------------------------
\* C31  The Flask generator never reads jitter before it is computed:
\* a step that receives a chunk leaves the generator running, with the
\* chunk either written or in the jitter buffer.
\* ------------------------------------------------------------------
ChunkKept ==
    /\ pc' = "read"
    /\ \/ Len(recv') \in {out'[i].id : i \in 1..Len(out')}
       \/ Len(recv') \in {jitter_buffer'[i] : i \in 1..Len(jitter_buffer')}

C31_JitterBoundWhenRead ==
    [][(variant = "flask" /\ Len(recv') = Len(recv) + 1) => ChunkKept]_vars

\* ------------------------------------------------------------------
\* C34  While a relay session for an ip:port is in progress, that
\* ip:port is a member of active_streams.
\* ------------------------------------------------------------------
C34_RunningIsRegistered ==
    \A s \in DOMAIN sessions :
        sessions[s].state \in Running => sessions[s].ip \in active_streams

\* ------------------------------------------------------------------
\* C32  Every peer connection and track created for the session is
\* stopped and closed (or, at the least, being closed by shutdown_event)
\* once the websocket handler has finished: none is left open.
\* ------------------------------------------------------------------
HandlerFinished == variant = "webrtc" /\ pc \in {"done", "raised"}

C32_AllPeersClosed ==
    HandlerFinished =>
        \A p \in DOMAIN peers :
            peers[p].state # "open" /\ peers[p].track = "stopped"

\* ------------------------------------------------------------------
\* C33  close_connection always completes without error, whenever the
\* closed-state callback runs, and leaves session_id out of connections.
\* ------------------------------------------------------------------
C33_CloseCompletes ==
    /\ pc # "raised"
    /\ shutdown # "raised"
    /\ (variant = "webrtc" /\ pc = "done") => Sid \notin DOMAIN connections

\* ------------------------------------------------------------------
\* C35  close_all_sessions does not fail, and when it returns the pool
\* is empty and every session ever created is closed.
\* ------------------------------------------------------------------
AllClosedAtReturn ==
    (shutdown # "done" /\ shutdown' = "done") =>
        /\ session_pool' = {}
        /\ \A c \in client_sessions' : c.closed

C35_CloseAllClosesAll ==
    /\ [][variant = "ultra_pool" => AllClosedAtReturn]_vars
    /\ [](variant = "ultra_pool" => shutdown # "raised")

\* ------------------------------------------------------------------
\* C36  The pool never holds a closed session after a get, a session is
\* only replaced when it was closed, and no key ever has two open
\* sessions.
\* ------------------------------------------------------------------
OpenOf(k) == {c \in client_sessions : c.key = k /\ ~c.closed}

C36_OneOpenSessionPerKey ==
    \A k \in PoolKeys \cup {"session"} : Cardinality(OpenOf(k)) <= 1

\* ------------------------------------------------------------------
\* C37: every complete, decodable JPEG frame the track has received is
\* eventually returned by recv, in arrival order. The order half: what
\* recv returned is, in order, a prefix of the frames the received bytes
\* hold. The delivery half, as a state property: once upstream has closed
\* and every frame cut so far decoded, no complete frame is left in
\* frame_buffer (nothing cuts a frame after the close, so a frame left
\* there is never returned).
\* ------------------------------------------------------------------
Returned == SelectSeq(out, LAMBDA p : p.kind = "frame")
AllDecoded == Len(Returned) = Len(frames)
ReturnedInOrder ==
    LET all == ExtractAll(Delivered).frames
    IN  /\ Len(Returned) <= Len(all)
        /\ \A i \in DOMAIN Returned : AllDecoded => Returned[i].payload = all[i]
C37_CompleteFramesReturned ==
    variant = "webrtc_track" =>
        /\ ReturnedInOrder
        /\ (pc = "closed" /\ pos = Len(upstream) /\ AllDecoded) => ~ExtractStep(buffer).found

\* ------------------------------------------------------------------
\* C38: after every chunk handled by the buffering branch of cv.py
\* (the chunk is kept back, nothing is yielded, the generator goes on),
\* the jitter buffer holds at most the limit computed for that chunk:
\* max_buffer of the smoothing level, plus 2 while jitter exceeds 0.02 s.
\* ------------------------------------------------------------------
Buffered == Len(recv') = Len(recv) + 1 /\ out' = out /\ pc' = "read"
LimitAfter == MaxBuffer(smoothing) + (IF jitter' > 200 THEN 2 ELSE 0)
C38_BufferWithinLimit ==
    [][(variant = "flask" /\ Buffered) => Len(jitter_buffer') <= LimitAfter]_vars

=============================================================================
